---- MODULE Spec2Model ----
(***************************************************************************)
(* CourseRate SG backend: the review endpoints (app/api/v1/endpoints/      *)
(* reviews.py), the bearer-token dependency (app/api/v1/depends/auth.py)   *)
(* and the SQL storage classes (app/storage/*_storage.py), modelled as a   *)
(* state machine over the reviews, courses and universities tables; the    *)
(* in-memory DataStore (app/storage/data_store.py) with the course and     *)
(* professor endpoints that read it; the RDSClient                         *)
(* (app/infrastructure/rds_client.py) with the detailed health check of    *)
(* app/main.py.                                                            *)
(*                                                                         *)
(* Every request runs in one database session that is committed when the   *)
(* handler returns (depends/storage.py get_db_session), so in the          *)
(* sequential specifications one action is one whole request.  The race    *)
(* specification splits update_review at the two statements it sends to    *)
(* the database.                                                           *)
(***************************************************************************)
EXTENDS Integers, Sequences, FiniteSets, TLC

VARIABLES
    settings,             \* the object get_app_settings() returns (fixed per process)
    cognito_keys_cache,   \* auth.py module global _cognito_keys_cache
    provider_requests,    \* number of requests.get(keys_url) calls the process has made
    reviews,              \* rows of table "reviews"
    courses,              \* rows of table "courses"
    universities,         \* rows of table "universities"
    next_review_id,       \* autoincrement sequence of reviews.id
    next_course_id,       \* autoincrement sequence of courses.id
    next_university_id,   \* autoincrement sequence of universities.id
    now,                  \* the wall clock datetime.utcnow() reads
    resp,                 \* the last request together with the answer it got
    in_flight,            \* update_review requests between two of their statements
    _universities,        \* DataStore._universities (dict id -> University)
    _professors,          \* DataStore._professors (dict id -> Professor)
    _courses,             \* DataStore._courses (dict id -> Course)
    _reviews,             \* DataStore._reviews (dict id -> Review)
    _next_university_id,  \* DataStore._next_university_id
    _next_professor_id,   \* DataStore._next_professor_id
    _next_course_id,      \* DataStore._next_course_id
    _next_review_id,      \* DataStore._next_review_id
    rds_environment,      \* whether the environment holds the fields RDSSettings requires
    db_client,            \* whether get_db_client's lru_cache holds the client
    _engine,              \* RDSClient._engine
    _session_factory,     \* RDSClient._session_factory
    postgres,             \* whether the database server answers
    calls                 \* the calls made on the RDSClient so far, with their outcomes

tables == <<reviews, courses, universities>>
sequences == <<next_review_id, next_course_id, next_university_id>>
\* the state of the in-memory DataStore
data_store == <<_universities, _professors, _courses, _reviews, _next_university_id,
                _next_professor_id, _next_course_id, _next_review_id>>
\* the state of the RDSClient, of its database and of get_db_client
rds_client == <<rds_environment, db_client, _engine, _session_factory, postgres, calls>>
vars == <<settings, cognito_keys_cache, provider_requests, reviews, courses, universities,
          next_review_id, next_course_id, next_university_id, now, resp, in_flight,
          data_store, rds_client>>

----------------------------------------------------------------------------
(* Bounds of the model. *)

\* reviews.id values the autoincrement sequence may hand out
MaxReviews == 2
\* largest value of the wall clock
MaxClock == 1
\* largest skip a listing request carries
MaxSkip == 1
\* largest limit a listing request carries (the endpoints accept 1..100)
MaxLimit == 2
\* reviews.id values handed out in the query specification
MaxRows == 2
\* failed requests for the provider's key set
MaxFetchErrors == 1
\* ids the in-memory store hands out for reviews and for professors
MaxStored == 2
\* ids the in-memory store hands out for universities and for courses
MaxCatalogue == 1
\* calls made on the RDSClient
MaxCalls == 4

----------------------------------------------------------------------------
(* Values. *)

\* Python None / SQL NULL in a string-typed place
None == "None"
\* an attribute the settings object does not have (reading it raises AttributeError)
Missing == "<missing>"

\* str.lower() and SQL lower() on the strings the model uses
Lower(s) ==
    CASE s = "CS1" -> "cs1"
      [] s = "EE2" -> "ee2"
      [] s = "NUS" -> "nus"
      [] s = "Nus" -> "nus"
      [] s = "Tan" -> "tan"
      [] s = "TAN" -> "tan"
      [] s = "Bearer" -> "bearer"
      [] s = "BEARER" -> "bearer"
      [] s = "Basic" -> "basic"
      [] OTHER -> s

\* Python truthiness of an optional string
Truthy(s) == s # None /\ s # ""

Max(a, b) == IF a >= b THEN a ELSE b
Min(a, b) == IF a <= b THEN a ELSE b

----------------------------------------------------------------------------
(* Authentication: app/api/v1/depends/auth.py *)

\* the key ids of the identity provider's JWKS document
ProviderKeys == {"k1"}

\* outcomes of requests.get(keys_url): a RequestException, a document
\* without "keys", the provider's key set
FetchOutcomes == {"error", "nokeys", "keys"}

NoCache == [cached |-> FALSE, keys |-> {}]

\* a fetch that never looks at the cache
get_cognito_public_keys_uncached(cache, fetch) ==
    IF fetch = "error"
    THEN [ok |-> FALSE, keys |-> {}, cache |-> cache, requests |-> 1]
    ELSE LET ks == IF fetch = "keys" THEN ProviderKeys ELSE {}
         IN  [ok |-> TRUE, keys |-> ks, cache |-> [cached |-> TRUE, keys |-> ks],
              requests |-> 1]

\* get_cognito_public_keys: result [ok, keys, cache, requests], requests being
\* the number of requests.get calls it made
get_cognito_public_keys(cache, fetch) ==
    IF cache.cached
    THEN [ok |-> TRUE, keys |-> cache.keys, cache |-> cache, requests |-> 0]
    ELSE IF settings.cognito_user_pool_id = "" \/ settings.cognito_user_pool_id = Missing
    THEN [ok |-> FALSE, keys |-> {}, cache |-> cache, requests |-> 0]
    ELSE IF settings.aws_region = Missing \/ settings.aws_region = ""
    THEN [ok |-> FALSE, keys |-> {}, cache |-> cache, requests |-> 0]
    ELSE IF fetch = "error"
    THEN [ok |-> FALSE, keys |-> {}, cache |-> cache, requests |-> 1]
    ELSE LET ks == IF fetch = "keys" THEN ProviderKeys ELSE {}
         IN  [ok |-> TRUE, keys |-> ks, cache |-> [cached |-> TRUE, keys |-> ks],
              requests |-> 1]

\* a decode that skips the signature, expiry and audience checks
jwt_decode_unverified(token) == TRUE

\* jwt.decode(token, public_key, algorithms, audience, verify_exp, verify_aud)
\* succeeds; reading settings.cognito_client_id raises when it is missing
jwt_decode(token) ==
    settings.cognito_client_id # Missing /\ token.sig = "ok"

\* verify_cognito_token: result [ok, sub, cache, requests]; every failure is a 401
verify_cognito_token(token, cache, fetch) ==
    IF token.kid = ""
    THEN [ok |-> FALSE, sub |-> None, cache |-> cache, requests |-> 0]
    ELSE LET k == get_cognito_public_keys(cache, fetch) IN
         IF ~k.ok
         THEN [ok |-> FALSE, sub |-> None, cache |-> k.cache, requests |-> k.requests]
         ELSE IF token.kid \notin k.keys
         THEN [ok |-> FALSE, sub |-> None, cache |-> k.cache, requests |-> k.requests]
         ELSE IF ~jwt_decode(token)
         THEN [ok |-> FALSE, sub |-> None, cache |-> k.cache, requests |-> k.requests]
         ELSE [ok |-> TRUE, sub |-> token.sub, cache |-> k.cache, requests |-> k.requests]

\* a dependency that returns whatever sub the verified payload carries
get_current_user_any_sub(authorization, cache, fetch) ==
    IF Len(authorization) # 2 \/ Lower(authorization[1]) # "bearer"
    THEN [status |-> 401, user_id |-> None, cache |-> cache, requests |-> 0]
    ELSE LET v == verify_cognito_token(authorization[2], cache, fetch) IN
         IF ~v.ok
         THEN [status |-> 401, user_id |-> None, cache |-> v.cache, requests |-> v.requests]
         ELSE [status |-> 200, user_id |-> v.sub, cache |-> v.cache, requests |-> v.requests]

\* get_current_user: the Authorization header is the sequence of words
\* authorization.split(maxsplit=1) yields (<<>> for a missing or empty header);
\* result [status, user_id, cache, requests]
get_current_user(authorization, cache, fetch) ==
    IF Len(authorization) = 0
    THEN [status |-> 401, user_id |-> None, cache |-> cache, requests |-> 0]
    ELSE IF Len(authorization) # 2
    THEN [status |-> 401, user_id |-> None, cache |-> cache, requests |-> 0]
    ELSE IF Lower(authorization[1]) # "bearer"
    THEN [status |-> 401, user_id |-> None, cache |-> cache, requests |-> 0]
    ELSE LET v == verify_cognito_token(authorization[2], cache, fetch) IN
         IF ~v.ok
         THEN [status |-> 401, user_id |-> None, cache |-> v.cache, requests |-> v.requests]
         ELSE IF ~Truthy(v.sub)
         THEN [status |-> 401, user_id |-> None, cache |-> v.cache, requests |-> v.requests]
         ELSE [status |-> 200, user_id |-> v.sub, cache |-> v.cache, requests |-> v.requests]

----------------------------------------------------------------------------
(* Schemas: app/schemas/review.py *)

\* ReviewCreate(**json): pydantic keeps the declared fields (university is read
\* from the key university_name, its validation alias) and ignores every
\* other key of the JSON body
ReviewCreate(raw) ==
    [overall_rating    |-> raw.overall_rating,
     difficulty_rating |-> raw.difficulty_rating,
     workload_rating   |-> raw.workload_rating,
     comment           |-> raw.comment,
     semester          |-> raw.semester,
     year              |-> raw.year,
     course_code       |-> raw.course_code,
     course_name       |-> raw.course_name,
     university        |-> raw.university_name,
     professor_name    |-> raw.professor_name]

\* Review.model_validate(db_review): the response schema read from a row
Review_model_validate(row) ==
    [id                |-> row.id,
     user_id           |-> row.user_id,
     overall_rating    |-> row.overall_rating,
     difficulty_rating |-> row.difficulty_rating,
     workload_rating   |-> row.workload_rating,
     comment           |-> row.comment,
     semester          |-> row.semester,
     year              |-> row.year,
     course_code       |-> row.course_code,
     course_name       |-> row.course_name,
     university        |-> row.university_name,
     professor_name    |-> row.professor_name,
     created_at        |-> row.created_at,
     updated_at        |-> row.updated_at]

\* Course.model_validate(db_course)
Course_model_validate(row) ==
    [id            |-> row.id,
     code          |-> row.code,
     university_id |-> row.university_id,
     university    |-> row.university,
     review_count  |-> row.review_count]

----------------------------------------------------------------------------
(* Storage: app/storage/university_storage.py, course_storage.py *)

\* a lookup that compares the names as they are spelled
University_get_by_name_exact(name) ==
    {u \in universities : u.name = name}

\* UniversityStorage.get_by_name: the rows the SELECT matches (scalar() takes the first)
University_get_by_name(name) ==
    {u \in universities : Lower(u.name) = Lower(name)}

\* UniversityStorage.create: the inserted row
University_create(name) ==
    [id |-> next_university_id, name |-> name, review_count |-> 0]

\* CourseStorage.get_by_code_and_university over a courses table
Course_get_by_code_and_university(code, university_name) ==
    {c \in courses : Lower(c.code) = Lower(code)
                     /\ Lower(c.university) = Lower(university_name)}

\* CourseStorage.create: the inserted row
Course_create(code, name, university_id, university_name) ==
    [id |-> next_course_id, code |-> code, name |-> name,
     university_id |-> university_id, university |-> university_name,
     review_count |-> 0]

\* substring test of SQL contains() on the strings the model uses
Contains(hay, needle) ==
    \/ needle = hay
    \/ needle = ""
    \/ <<hay, needle>> \in {<<"cs1", "cs">>, <<"ee2", "ee">>, <<"cs1", "1">>, <<"ee2", "2">>}

\* position of a string in the database's ORDER BY and in Python's sorted()
\* (byte order)
StrRank(s) ==
    CASE s = "CS1" -> 1 [] s = "EE2" -> 2 [] s = "NUS" -> 3 [] s = "Nus" -> 4
      [] s = "TAN" -> 5 [] s = "Tan" -> 6 [] s = "cs1" -> 7 [] s = "ee2" -> 8
      [] s = "nus" -> 9 [] s = "tan" -> 10 [] OTHER -> 0

RECURSIVE Perms(_)
\* all orderings of a finite set
Perms(S) ==
    IF S = {} THEN {<<>>}
    ELSE UNION {{<<x>> \o p : p \in Perms(S \ {x})} : x \in S}

\* an OFFSET that starts one row late
Offset_late(seq, skip) ==
    IF skip + 1 >= Len(seq) THEN <<>> ELSE SubSeq(seq, skip + 2, Len(seq))

\* OFFSET skip
Offset(seq, skip) ==
    IF skip >= Len(seq) THEN <<>> ELSE SubSeq(seq, skip + 1, Len(seq))

\* LIMIT limit
Limit(seq, limit) ==
    IF limit >= Len(seq) THEN seq ELSE SubSeq(seq, 1, limit)

\* CourseStorage.list_courses: the possible result lists
Course_list_courses(code, university, skip, limit) ==
    LET matching == {c \in courses :
                        /\ (Truthy(code) => Contains(Lower(c.code), Lower(code)))
                        /\ (Truthy(university) => Lower(c.university) = Lower(university))}
        before(a, b) == \/ StrRank(a.university) < StrRank(b.university)
                        \/ /\ a.university = b.university
                           /\ StrRank(a.code) <= StrRank(b.code)
        ordered == {p \in Perms(matching) :
                        \A i, j \in 1..Len(p) : i < j => before(p[i], p[j])}
    IN  {[k \in 1..Len(Limit(Offset(p, skip), limit)) |->
              Course_model_validate(Limit(Offset(p, skip), limit)[k])] : p \in ordered}

----------------------------------------------------------------------------
(* Storage: app/storage/review_storage.py *)

\* a semester order that takes the calendar order of Semester 2 and Winter Session
_get_semester_order_swapped(semester) ==
    CASE semester = "Summer Session" -> 6
      [] semester = "Special Term 2" -> 5
      [] semester = "Winter Session" -> 4
      [] semester = "Semester 2"     -> 3
      [] semester = "Special Term 1" -> 2
      [] semester = "Semester 1"     -> 1
      [] OTHER -> 0

\* ReviewStorage._get_semester_order: the CASE expression
_get_semester_order(semester) ==
    CASE semester = "Summer Session" -> 6
      [] semester = "Special Term 2" -> 5
      [] semester = "Semester 2"     -> 4
      [] semester = "Winter Session" -> 3
      [] semester = "Special Term 1" -> 2
      [] semester = "Semester 1"     -> 1
      [] OTHER -> 0

\* ORDER BY year DESC, semester order DESC, created_at DESC: a may precede b
OrderByPrecedes(a, b) ==
    \/ a.year > b.year
    \/ /\ a.year = b.year
       /\ _get_semester_order(a.semester) > _get_semester_order(b.semester)
    \/ /\ a.year = b.year
       /\ _get_semester_order(a.semester) = _get_semester_order(b.semester)
       /\ a.created_at >= b.created_at

\* the orderings of a set of review rows the ORDER BY clause allows
\* (rows with equal sort keys come in an order the database chooses)
OrderBy(rows) ==
    {p \in Perms(rows) : \A i, j \in 1..Len(p) : i < j => OrderByPrecedes(p[i], p[j])}

\* a comparison that does not fold case
LowerEquals_exact(column, value) == column # None /\ column = value

\* func.lower(column) == value.lower(); a NULL column never satisfies it
LowerEquals(column, value) == column # None /\ Lower(column) = Lower(value)

\* a user filter that is never applied
UserIdEquals_any(column, user_id) == TRUE

\* the clause added when user_id is not None: ReviewModel.user_id == user_id
UserIdEquals(column, user_id) ==
    user_id # None => (column # None /\ column = user_id)

\* the WHERE clauses filter_reviews and get_stats add
WhereReviews(professor_name, course_code, university, user_id) ==
    {r \in reviews :
        /\ Truthy(professor_name) => LowerEquals(r.professor_name, professor_name)
        /\ Truthy(course_code) => LowerEquals(r.course_code, course_code)
        /\ Truthy(university) => LowerEquals(r.university_name, university)
        /\ UserIdEquals(r.user_id, user_id)}

\* the response list of one ordered, paginated SELECT
Paginate(p, skip, limit) ==
    [k \in 1..Len(Limit(Offset(p, skip), limit)) |->
        Review_model_validate(Limit(Offset(p, skip), limit)[k])]

\* ReviewStorage.get_all: the possible result lists
Review_get_all(skip, limit) ==
    {Paginate(p, skip, limit) : p \in OrderBy(reviews)}

\* ReviewStorage.filter_reviews: the possible result lists
Review_filter_reviews(professor_name, course_code, university, user_id, skip, limit) ==
    {Paginate(p, skip, limit) :
        p \in OrderBy(WhereReviews(professor_name, course_code, university, user_id))}

\* a lookup whose WHERE clause is lost
Review_get_any(review_id) == reviews

\* ReviewStorage.get: the row with the id, as a set (empty when there is none)
Review_get(review_id) == {r \in reviews : r.id = review_id}

RECURSIVE SumOver(_, _)
\* SQL sum of a column over a set of rows
SumOver(rows, col) ==
    IF rows = {} THEN 0
    ELSE LET r == CHOOSE x \in rows : TRUE
         IN  r[col] + SumOver(rows \ {r}, col)

\* an average as the exact fraction <<sum, count>>; <<>> is NULL / None
NullAvg == <<>>

\* SQL avg(col): NULL over no rows
SqlAvg(rows, col) ==
    IF rows = {} THEN NullAvg ELSE <<SumOver(rows, col), Cardinality(rows)>>

\* float(x) if x else None: a zero average is falsy
FloatOrNone(avg) ==
    IF avg = NullAvg THEN NullAvg
    ELSE IF avg[1] = 0 THEN NullAvg
    ELSE avg

\* ReviewStorage.get_stats
Review_get_stats(professor_name, course_code, university) ==
    LET rows == WhereReviews(professor_name, course_code, university, None)
    IN  [avg_overall_rating    |-> FloatOrNone(SqlAvg(rows, "overall_rating")),
         avg_difficulty_rating |-> FloatOrNone(SqlAvg(rows, "difficulty_rating")),
         avg_workload_rating   |-> FloatOrNone(SqlAvg(rows, "workload_rating")),
         review_count          |-> Cardinality(rows)]

\* a create that stores no owner
Review_create_unowned(review_in, user_id) ==
    LET final_course_name == review_in.course_name
    IN  [id                |-> next_review_id,
         user_id           |-> None,
         overall_rating    |-> review_in.overall_rating,
         difficulty_rating |-> review_in.difficulty_rating,
         workload_rating   |-> review_in.workload_rating,
         comment           |-> review_in.comment,
         semester          |-> review_in.semester,
         year              |-> review_in.year,
         course_code       |-> review_in.course_code,
         course_name       |-> IF Truthy(final_course_name)
                               THEN final_course_name ELSE review_in.course_code,
         university_name   |-> review_in.university,
         professor_name    |-> review_in.professor_name,
         created_at        |-> now,
         updated_at        |-> now]

\* ReviewStorage.create: the inserted row (course_name is a column of reviews
\* as the storage class, the seed script and migration f46d02669629 use it)
Review_create(review_in, user_id) ==
    LET final_course_name == review_in.course_name
    IN  [id                |-> next_review_id,
         user_id           |-> user_id,
         overall_rating    |-> review_in.overall_rating,
         difficulty_rating |-> review_in.difficulty_rating,
         workload_rating   |-> review_in.workload_rating,
         comment           |-> review_in.comment,
         semester          |-> review_in.semester,
         year              |-> review_in.year,
         course_code       |-> review_in.course_code,
         course_name       |-> IF Truthy(final_course_name)
                               THEN final_course_name ELSE review_in.course_code,
         university_name   |-> review_in.university,
         professor_name    |-> review_in.professor_name,
         created_at        |-> now,
         updated_at        |-> now]

\* columns of reviews declared NOT NULL among those ReviewUpdate can set
NotNullColumns ==
    {"overall_rating", "difficulty_rating", "workload_rating", "semester", "year"}

\* ReviewStorage.update on an existing row: update_data maps each field the
\* request set (model_dump(exclude_unset=True)) to <<value>>, or to <<>> for
\* an explicit null
Review_update(row, update_data) ==
    [f \in DOMAIN row |->
        IF f = "updated_at" THEN now
        ELSE IF f \in DOMAIN update_data
        THEN (IF update_data[f] = <<>> THEN None ELSE update_data[f][1])
        ELSE row[f]]

\* the flush raises IntegrityError when a NOT NULL column was set to null
UpdateViolatesNotNull(update_data) ==
    \E f \in DOMAIN update_data : f \in NotNullColumns /\ update_data[f] = <<>>

----------------------------------------------------------------------------
(* Endpoints: app/api/v1/endpoints/reviews.py, courses.py.  Each action is *)
(* one request: its dependencies (get_current_user, the session), the      *)
(* handler body and the commit.  resp records the request and its answer.  *)

\* an ownership check that lets everybody through
IsOwner_anybody(review, current_user_id) == TRUE

\* the ownership check of update_review and delete_review passes
IsOwner(review, current_user_id) == review.user_id = current_user_id

Answer(op, authorization, status, req, body) ==
    [op |-> op, authorization |-> authorization, status |-> status,
     req |-> req, body |-> body]

NoBody == <<>>

\* a request rejected by a dependency never binds the handler's parameters
NoReq == <<>>

\* POST /reviews/
create_review(authorization, raw, fetch) ==
    LET auth == get_current_user(authorization, cognito_keys_cache, fetch) IN
    /\ cognito_keys_cache' = auth.cache
    /\ provider_requests' = provider_requests + auth.requests
    /\ UNCHANGED <<in_flight, data_store, rds_client>>
    /\ UNCHANGED <<settings, now>>
    /\ IF auth.status = 401
       THEN /\ resp' = Answer("create_review", authorization, 401, NoReq, NoBody)
            /\ UNCHANGED <<tables, sequences>>
       ELSE LET review_in == ReviewCreate(raw)
                   ufound == University_get_by_name(review_in.university)
               IN  \E university \in (IF ufound # {} THEN ufound
                                      ELSE {University_create(review_in.university)}) :
                   LET course_name == IF Truthy(review_in.course_name)
                                      THEN review_in.course_name
                                      ELSE review_in.course_code
                       cfound == Course_get_by_code_and_university(
                                     review_in.course_code, university.name)
                       created == IF cfound # {} THEN {}
                                  ELSE {Course_create(review_in.course_code, course_name,
                                                      university.id, university.name)}
                       review == Review_create(review_in, auth.user_id)
                   IN  /\ universities' = universities \cup {university}
                       /\ next_university_id' =
                              IF ufound # {} THEN next_university_id
                              ELSE next_university_id + 1
                       /\ courses' = courses \cup created
                       /\ next_course_id' =
                              IF cfound # {} THEN next_course_id ELSE next_course_id + 1
                       /\ reviews' = reviews \cup {review}
                       /\ next_review_id' = next_review_id + 1
                       /\ resp' = Answer("create_review", authorization, 201, raw,
                                         Review_model_validate(review))

\* GET /reviews/me
get_my_reviews(authorization, skip, limit, fetch) ==
    LET auth == get_current_user(authorization, cognito_keys_cache, fetch)
        req == [skip |-> skip, limit |-> limit]
    IN
    /\ cognito_keys_cache' = auth.cache
    /\ provider_requests' = provider_requests + auth.requests
    /\ UNCHANGED <<in_flight, data_store, rds_client>>
    /\ UNCHANGED <<settings, now, tables, sequences>>
    /\ IF auth.status = 401
       THEN resp' = Answer("get_my_reviews", authorization, 401, NoReq, NoBody)
       ELSE \E body \in Review_filter_reviews(None, None, None, auth.user_id, skip, limit) :
                resp' = Answer("get_my_reviews", authorization, 200, req, body)

\* GET /reviews/stats (takes no Authorization dependency)
get_review_stats(authorization, professor_name, course_code, university) ==
    /\ resp' = Answer("get_review_stats", authorization, 200,
                      [professor_name |-> professor_name, course_code |-> course_code,
                       university |-> university],
                      Review_get_stats(professor_name, course_code, university))
    /\ UNCHANGED <<settings, cognito_keys_cache, provider_requests, now, tables, sequences,
                 in_flight, data_store, rds_client>>

\* GET /reviews/ (takes no Authorization dependency)
list_reviews(authorization, professor_name, course_code, university, skip, limit) ==
    LET req == [professor_name |-> professor_name, course_code |-> course_code,
                university |-> university, skip |-> skip, limit |-> limit]
        results == IF Truthy(professor_name) \/ Truthy(course_code) \/ Truthy(university)
                   THEN Review_filter_reviews(professor_name, course_code, university,
                                              None, skip, limit)
                   ELSE Review_get_all(skip, limit)
    IN
    /\ \E body \in results :
           resp' = Answer("list_reviews", authorization, 200, req, body)
    /\ UNCHANGED <<settings, cognito_keys_cache, provider_requests, now, tables, sequences,
                 in_flight, data_store, rds_client>>

\* GET /reviews/{review_id} (takes no Authorization dependency)
get_review(authorization, review_id) ==
    LET found == Review_get(review_id)
        req == [review_id |-> review_id]
    IN
    /\ IF found = {}
       THEN resp' = Answer("get_review", authorization, 404, req, NoBody)
       ELSE \E review \in found :
                resp' = Answer("get_review", authorization, 200, req,
                               Review_model_validate(review))
    /\ UNCHANGED <<settings, cognito_keys_cache, provider_requests, now, tables, sequences,
                 in_flight, data_store, rds_client>>

\* PUT /reviews/{review_id}
update_review(authorization, review_id, update_data, fetch) ==
    LET auth == get_current_user(authorization, cognito_keys_cache, fetch)
        req == [review_id |-> review_id, update_data |-> update_data]
        found == Review_get(review_id)
    IN
    /\ cognito_keys_cache' = auth.cache
    /\ provider_requests' = provider_requests + auth.requests
    /\ UNCHANGED <<in_flight, data_store, rds_client>>
    /\ UNCHANGED <<settings, now, courses, universities, sequences>>
    /\ IF auth.status = 401
       THEN /\ resp' = Answer("update_review", authorization, 401, NoReq, NoBody)
            /\ UNCHANGED reviews
       ELSE IF found = {}
       THEN /\ resp' = Answer("update_review", authorization, 404, req, NoBody)
            /\ UNCHANGED reviews
       ELSE \E review \in found :
            IF ~IsOwner(review, auth.user_id)
            THEN /\ resp' = Answer("update_review", authorization, 403, req, NoBody)
                 /\ UNCHANGED reviews
            ELSE IF UpdateViolatesNotNull(update_data)
            THEN \* IntegrityError at flush: the session is rolled back
                 /\ resp' = Answer("update_review", authorization, 500, req, NoBody)
                 /\ UNCHANGED reviews
            ELSE LET updated == Review_update(review, update_data) IN
                 /\ reviews' = (reviews \ {review}) \cup {updated}
                 /\ resp' = Answer("update_review", authorization, 200, req,
                                   Review_model_validate(updated))

\* DELETE /reviews/{review_id}
delete_review(authorization, review_id, fetch) ==
    LET auth == get_current_user(authorization, cognito_keys_cache, fetch)
        req == [review_id |-> review_id]
        found == Review_get(review_id)
    IN
    /\ cognito_keys_cache' = auth.cache
    /\ provider_requests' = provider_requests + auth.requests
    /\ UNCHANGED <<in_flight, data_store, rds_client>>
    /\ UNCHANGED <<settings, now, courses, universities, sequences>>
    /\ IF auth.status = 401
       THEN /\ resp' = Answer("delete_review", authorization, 401, NoReq, NoBody)
            /\ UNCHANGED reviews
       ELSE IF found = {}
       THEN /\ resp' = Answer("delete_review", authorization, 404, req, NoBody)
            /\ UNCHANGED reviews
       ELSE \E review \in found :
            IF ~IsOwner(review, auth.user_id)
            THEN /\ resp' = Answer("delete_review", authorization, 403, req, NoBody)
                 /\ UNCHANGED reviews
            ELSE /\ reviews' = reviews \ {review}
                 /\ resp' = Answer("delete_review", authorization, 204, req, NoBody)

\* GET /courses/ (takes no Authorization dependency)
list_courses(authorization, code, university, skip, limit) ==
    /\ \E body \in Course_list_courses(code, university, skip, limit) :
           resp' = Answer("list_courses", authorization, 200,
                          [code |-> code, university |-> university,
                           skip |-> skip, limit |-> limit], body)
    /\ UNCHANGED <<settings, cognito_keys_cache, provider_requests, now, tables, sequences,
                 in_flight, data_store, rds_client>>

\* the wall clock advances
Tick ==
    /\ now < MaxClock
    /\ now' = now + 1
    /\ UNCHANGED <<settings, cognito_keys_cache, provider_requests, tables, sequences, resp,
                   in_flight, data_store, rds_client>>

----------------------------------------------------------------------------
(* Initial states. *)

\* AppSettings as declared in app/settings/app_settings.py with its defaults:
\* it has no aws_region and no cognito_client_id attribute
SettingsSrcDefault ==
    [cognito_user_pool_id |-> "", aws_region |-> Missing, cognito_client_id |-> Missing]

\* the same class with COGNITO_USER_POOL_ID set in the environment
SettingsSrcEnv ==
    [cognito_user_pool_id |-> "pool", aws_region |-> Missing, cognito_client_id |-> Missing]

\* a settings object that has the attributes auth.py reads
SettingsDeployed ==
    [cognito_user_pool_id |-> "pool", aws_region |-> "ap-southeast-1",
     cognito_client_id |-> "client"]

\* rows present before the service starts (scripts/seed_database.py inserts
\* universities, courses and reviews owned by nobody, all with review_count 0;
\* a semester the literal-value migration did not recognise is kept as it was)
SeedUniversities == {[id |-> 1, name |-> "NUS", review_count |-> 0]}

SeedCourses ==
    {[id |-> 1, code |-> "CS1", name |-> "Cloud", university_id |-> 1,
      university |-> "NUS", review_count |-> 0]}

SeedReviews ==
    {[id |-> 1, user_id |-> None, overall_rating |-> 4, difficulty_rating |-> 2,
      workload_rating |-> 3, comment |-> None, semester |-> "Trimester 3",
      year |-> 2024, course_code |-> "CS1", course_name |-> "Cloud",
      university_name |-> "NUS", professor_name |-> "Tan",
      created_at |-> 0, updated_at |-> 0]}

NoAnswer == Answer("none", <<>>, 0, <<>>, NoBody)

\* DataStore.__init__ before _initialize_sample_data, which is also the state
\* clear_all_data() leaves.  The sample reviews do not validate against
\* schemas/review.py (ratings 4.5, semester "AY2023/24 Sem 1", keyword
\* university), so the stores are filled through the create_* methods only.
DataStore_init ==
    /\ _universities = <<>> /\ _professors = <<>> /\ _courses = <<>> /\ _reviews = <<>>
    /\ _next_university_id = 1 /\ _next_professor_id = 1
    /\ _next_course_id = 1 /\ _next_review_id = 1

\* RDSClient.__init__ in a process where nothing has called get_db_client yet
RDSClient_init(environments) ==
    /\ rds_environment \in environments
    /\ db_client = FALSE
    /\ _engine = None
    /\ _session_factory = None
    /\ postgres = "up"
    /\ calls = <<>>

InitWith(settingsChoices) ==
    /\ settings \in settingsChoices
    /\ cognito_keys_cache = NoCache
    /\ provider_requests = 0
    /\ now = 0
    /\ resp = NoAnswer
    /\ in_flight = {}
    /\ DataStore_init
    /\ RDSClient_init({"set"})
    /\ \/ /\ reviews = {} /\ courses = {} /\ universities = {}
          /\ next_review_id = 1 /\ next_course_id = 1 /\ next_university_id = 1
       \/ /\ reviews = SeedReviews /\ courses = SeedCourses
          /\ universities = SeedUniversities
          /\ next_review_id = 2 /\ next_course_id = 2 /\ next_university_id = 2

Init == InitWith({SettingsSrcDefault, SettingsSrcEnv, SettingsDeployed})

----------------------------------------------------------------------------
(* Requests of the sequential specification. *)

Token(kid, sig, sub) == [kid |-> kid, sig |-> sig, sub |-> sub]

\* Authorization headers that name a user
CallerHeaders ==
    {<<"Bearer", Token("k1", "ok", "u1")>>, <<"bearer", Token("k1", "ok", "u2")>>}

\* Authorization headers get_current_user rejects
BadHeaders ==
    {<<>>, <<"Bearer">>,
     <<"Basic", Token("k1", "ok", "u1")>>,
     <<"Bearer", Token("k1", "expired", "u1")>>,
     <<"Bearer", Token("k1", "invalid", "u1")>>,
     <<"Bearer", Token("", "ok", "u1")>>,
     <<"Bearer", Token("k2", "ok", "u1")>>,
     <<"Bearer", Token("k1", "ok", None)>>,
     <<"Bearer", Token("k1", "ok", "")>>}

Headers == CallerHeaders \cup BadHeaders

\* headers sent to the endpoints that take no Authorization dependency
PublicHeaders == {<<>>, <<"Bearer", Token("k1", "invalid", "u1")>>}

RawBody(overall, difficulty, workload, semester, year, code, cname, univ, prof, uid) ==
    [overall_rating |-> overall, difficulty_rating |-> difficulty,
     workload_rating |-> workload, comment |-> None, semester |-> semester,
     year |-> year, course_code |-> code, course_name |-> cname,
     university_name |-> univ, professor_name |-> prof, user_id |-> uid]

\* JSON bodies of POST /reviews/; the key user_id is not a field of ReviewCreate
RawBodies ==
    {RawBody(5, 3, 0, "Semester 1", 2024, "CS1", "Cloud", "NUS", "Tan", "u2"),
     RawBody(0, 0, 0, "Semester 2", 2024, "cs1", None, "nus", None, None)}

\* JSON bodies of PUT /reviews/{id}: the fields set, <<>> for an explicit null
UpdateBodies ==
    {[overall_rating |-> <<1>>, professor_name |-> <<>>],
     [overall_rating |-> <<>>]}

ReviewIds == 1..(MaxReviews + 1)

\* outcomes of the key fetch a request can meet (none is made once cached;
\* the provider fails at most MaxFetchErrors times)
Fetches ==
    IF cognito_keys_cache.cached THEN {"keys"}
    ELSE IF provider_requests < MaxFetchErrors THEN FetchOutcomes
    ELSE FetchOutcomes \ {"error"}

\* headers without a usable token, sent to every authenticated endpoint
FewBadHeaders == {<<>>, <<"Bearer", Token("k1", "invalid", "u1")>>}

\* requests that carry a header from BadHeaders
Unauthenticated ==
    \/ \E a \in BadHeaders, raw \in RawBodies, fetch \in Fetches :
           next_review_id <= MaxReviews /\ create_review(a, raw, fetch)
    \/ \E a \in FewBadHeaders, fetch \in Fetches : get_my_reviews(a, 0, 1, fetch)
    \/ \E a \in FewBadHeaders, u \in UpdateBodies, fetch \in Fetches :
           update_review(a, 1, u, fetch)
    \/ \E a \in FewBadHeaders, fetch \in Fetches : delete_review(a, 1, fetch)

Next ==
    \/ \E a \in CallerHeaders, raw \in RawBodies, fetch \in Fetches :
           next_review_id <= MaxReviews /\ create_review(a, raw, fetch)
    \/ \E a \in CallerHeaders, skip \in 0..MaxSkip, limit \in 1..MaxLimit, fetch \in Fetches :
           get_my_reviews(a, skip, limit, fetch)
    \/ \E a \in PublicHeaders : get_review_stats(a, None, "cs1", "NUS")
    \/ \E a \in PublicHeaders : list_reviews(a, None, None, None, 0, MaxLimit)
    \/ \E a \in PublicHeaders, id \in ReviewIds : get_review(a, id)
    \/ \E a \in CallerHeaders, id \in ReviewIds, u \in UpdateBodies, fetch \in Fetches :
           update_review(a, id, u, fetch)
    \/ \E a \in CallerHeaders, id \in ReviewIds, fetch \in Fetches :
           delete_review(a, id, fetch)
    \/ \E code \in {None, "cs"}, university \in {None, "nus"} :
           list_courses(<<>>, code, university, 0, MaxLimit)
    \/ Unauthenticated
    \/ Tick

Spec == Init /\ [][Next]_vars

----------------------------------------------------------------------------
(* The query specification: reviews are created from a wider set of bodies *)
(* and then listed, filtered, paginated and aggregated.                    *)

QueryBodies ==
    {RawBody(5, 3, 0, "Semester 1",     2024, "CS1", "Cloud", "NUS", "Tan", None),
     RawBody(0, 0, 0, "Semester 2",     2024, "cs1", None,    "nus", None,  None),
     RawBody(0, 4, 0, "Summer Session", 2024, "EE2", None,    "NUS", "TAN", None),
     RawBody(3, 0, 2, "Special Term 2", 2024, "CS1", None,    "Nus", "Tan", None),
     RawBody(2, 5, 1, "Winter Session", 2024, "EE2", None,    "nus", "",    None),
     RawBody(4, 1, 5, "Special Term 1", 2024, "cs1", "Cloud", "NUS", None,  None),
     RawBody(1, 2, 4, "Summer Session", 2023, "CS1", "Cloud", "NUS", "tan", None)}

ProfessorFilters == {None, "", "tan"}
CourseFilters == {None, "CS1"}
UniversityFilters == {None, "nus"}

QueryInit == InitWith({SettingsDeployed})

QueryCaller == <<"Bearer", Token("k1", "ok", "u1")>>

\* the provider answers every key request of the query specification
QueryFetches == {"keys"}

QueryNext ==
    \/ \E raw \in QueryBodies, fetch \in QueryFetches :
           next_review_id <= MaxRows /\ create_review(QueryCaller, raw, fetch)
    \/ \E a \in CallerHeaders, skip \in 0..MaxSkip, limit \in 1..MaxLimit, fetch \in QueryFetches :
           get_my_reviews(a, skip, limit, fetch)
    \/ \E p \in ProfessorFilters, c \in CourseFilters, u \in UniversityFilters :
           get_review_stats(<<>>, p, c, u)
    \/ \E p \in ProfessorFilters, c \in CourseFilters, u \in UniversityFilters,
          skip \in 0..MaxSkip, limit \in 1..MaxLimit :
           list_reviews(<<>>, p, c, u, skip, limit)
    \/ Tick

QuerySpec == QueryInit /\ [][QueryNext]_vars

----------------------------------------------------------------------------
(* The in-memory store: app/storage/data_store.py.  A dict is a function   *)
(* from its keys; every method is one action, and resp records the call    *)
(* with the value it returned.                                             *)

\* a method returned a value / raised an exception
Returned == 0
Raised == 1

\* dict[key] = value
Put(dict, key, value) == (key :> value) @@ dict

\* del dict[key]
Del(dict, key) == [k \in DOMAIN dict \ {key} |-> dict[k]]

\* list(dict.values()): the values in insertion order, which for these dicts
\* is the order of the ids (ids are handed out ascending, an update assigns
\* to a key the dict already has)
Values(dict) ==
    LET keys == CHOOSE p \in Perms(DOMAIN dict) :
                    \A i, j \in 1..Len(p) : i < j => p[i] < p[j]
    IN  [i \in 1..Len(keys) |-> dict[keys[i]]]

\* DataStore.create_university
DataStore_create_university(name) ==
    LET university == [id |-> _next_university_id, name |-> name, review_count |-> 0] IN
    /\ _universities' = Put(_universities, _next_university_id, university)
    /\ _next_university_id' = _next_university_id + 1
    /\ resp' = Answer("DataStore.create_university", <<>>, Returned,
                      [name |-> name], university)
    /\ UNCHANGED <<_professors, _courses, _reviews, _next_professor_id, _next_course_id,
                   _next_review_id>>
    /\ UNCHANGED <<settings, cognito_keys_cache, provider_requests, now, tables, sequences,
                   in_flight, rds_client>>

\* DataStore.create_professor: ValueError when the university is not stored
DataStore_create_professor(name, university_id) ==
    LET req == [name |-> name, university_id |-> university_id] IN
    /\ IF university_id \notin DOMAIN _universities
       THEN /\ resp' = Answer("DataStore.create_professor", <<>>, Raised, req, NoBody)
            /\ UNCHANGED <<_professors, _next_professor_id>>
       ELSE LET professor == [id |-> _next_professor_id, name |-> name,
                              university_id |-> university_id,
                              university |-> _universities[university_id].name,
                              review_count |-> 0]
            IN  /\ _professors' = Put(_professors, _next_professor_id, professor)
                /\ _next_professor_id' = _next_professor_id + 1
                /\ resp' = Answer("DataStore.create_professor", <<>>, Returned, req,
                                  professor)
    /\ UNCHANGED <<_universities, _courses, _reviews, _next_university_id, _next_course_id,
                   _next_review_id>>
    /\ UNCHANGED <<settings, cognito_keys_cache, provider_requests, now, tables, sequences,
                   in_flight, rds_client>>

\* DataStore.create_course: ValueError when the university is not stored
DataStore_create_course(code, university_id) ==
    LET req == [code |-> code, university_id |-> university_id] IN
    /\ IF university_id \notin DOMAIN _universities
       THEN /\ resp' = Answer("DataStore.create_course", <<>>, Raised, req, NoBody)
            /\ UNCHANGED <<_courses, _next_course_id>>
       ELSE LET course == [id |-> _next_course_id, code |-> code,
                           university_id |-> university_id,
                           university |-> _universities[university_id].name,
                           review_count |-> 0]
            IN  /\ _courses' = Put(_courses, _next_course_id, course)
                /\ _next_course_id' = _next_course_id + 1
                /\ resp' = Answer("DataStore.create_course", <<>>, Returned, req, course)
    /\ UNCHANGED <<_universities, _professors, _reviews, _next_university_id,
                   _next_professor_id, _next_review_id>>
    /\ UNCHANGED <<settings, cognito_keys_cache, provider_requests, now, tables, sequences,
                   in_flight, rds_client>>

\* Review(**review_data) in DataStore.create_review
DataStore_new_review(review_in, user_id) ==
    [id                |-> _next_review_id,
     user_id           |-> user_id,
     overall_rating    |-> review_in.overall_rating,
     difficulty_rating |-> review_in.difficulty_rating,
     workload_rating   |-> review_in.workload_rating,
     comment           |-> review_in.comment,
     semester          |-> review_in.semester,
     year              |-> review_in.year,
     course_code       |-> review_in.course_code,
     course_name       |-> review_in.course_name,
     university        |-> review_in.university,
     professor_name    |-> review_in.professor_name,
     created_at        |-> now,
     updated_at        |-> now]

\* DataStore.create_review
DataStore_create_review(raw, user_id) ==
    LET review == DataStore_new_review(ReviewCreate(raw), user_id) IN
    /\ _reviews' = Put(_reviews, _next_review_id, review)
    /\ _next_review_id' = _next_review_id + 1
    /\ resp' = Answer("DataStore.create_review", <<>>, Returned, raw, review)
    /\ UNCHANGED <<_universities, _professors, _courses, _next_university_id,
                   _next_professor_id, _next_course_id>>
    /\ UNCHANGED <<settings, cognito_keys_cache, provider_requests, now, tables, sequences,
                   in_flight, rds_client>>

\* fields of the Review schema that reject None
ReviewRequired ==
    {"overall_rating", "difficulty_rating", "workload_rating", "semester", "year"}

\* {**review.model_dump(), **update_data} with updated_at = utcnow():
\* update_data maps each field the request set to <<value>>, or to <<>> for
\* an explicit null
DataStore_updated_fields(review, update_data) ==
    [f \in DOMAIN review \cup DOMAIN update_data |->
        IF f = "updated_at" THEN now
        ELSE IF f \in DOMAIN update_data
        THEN (IF update_data[f] = <<>> THEN None ELSE update_data[f][1])
        ELSE review[f]]

\* DataStore.update_review: None for an unknown id; Review(**updated_fields)
\* raises ValidationError when a required field was set to null
DataStore_update_review(review_id, update_data) ==
    LET req == [review_id |-> review_id, update_data |-> update_data] IN
    /\ IF review_id \notin DOMAIN _reviews
       THEN /\ resp' = Answer("DataStore.update_review", <<>>, Returned, req, NoBody)
            /\ UNCHANGED _reviews
       ELSE IF \E f \in DOMAIN update_data : f \in ReviewRequired /\ update_data[f] = <<>>
       THEN /\ resp' = Answer("DataStore.update_review", <<>>, Raised, req, NoBody)
            /\ UNCHANGED _reviews
       ELSE LET updated_review == DataStore_updated_fields(_reviews[review_id], update_data)
            IN  /\ _reviews' = Put(_reviews, review_id, updated_review)
                /\ resp' = Answer("DataStore.update_review", <<>>, Returned, req,
                                  updated_review)
    /\ UNCHANGED <<_universities, _professors, _courses, _next_university_id,
                   _next_professor_id, _next_course_id, _next_review_id>>
    /\ UNCHANGED <<settings, cognito_keys_cache, provider_requests, now, tables, sequences,
                   in_flight, rds_client>>

\* a delete that hands the deleted id back to the counter
DataStore_delete_review_reusing_id(review_id) ==
    /\ _reviews' = IF review_id \in DOMAIN _reviews THEN Del(_reviews, review_id)
                   ELSE _reviews
    /\ _next_review_id' = IF review_id \in DOMAIN _reviews THEN review_id
                          ELSE _next_review_id
    /\ resp' = Answer("DataStore.delete_review", <<>>, Returned,
                      [review_id |-> review_id], review_id \in DOMAIN _reviews)
    /\ UNCHANGED <<_universities, _professors, _courses, _next_university_id,
                   _next_professor_id, _next_course_id>>
    /\ UNCHANGED <<settings, cognito_keys_cache, provider_requests, now, tables, sequences,
                   in_flight, rds_client>>

\* DataStore.delete_review: True when the id was stored
DataStore_delete_review(review_id) ==
    /\ _reviews' = IF review_id \in DOMAIN _reviews THEN Del(_reviews, review_id)
                   ELSE _reviews
    /\ resp' = Answer("DataStore.delete_review", <<>>, Returned,
                      [review_id |-> review_id], review_id \in DOMAIN _reviews)
    /\ UNCHANGED <<_universities, _professors, _courses, _next_university_id,
                   _next_professor_id, _next_course_id, _next_review_id>>
    /\ UNCHANGED <<settings, cognito_keys_cache, provider_requests, now, tables, sequences,
                   in_flight, rds_client>>

\* DataStore.clear_all_data
DataStore_clear_all_data ==
    /\ _universities' = <<>> /\ _professors' = <<>> /\ _courses' = <<>> /\ _reviews' = <<>>
    /\ _next_university_id' = 1 /\ _next_professor_id' = 1
    /\ _next_course_id' = 1 /\ _next_review_id' = 1
    /\ resp' = Answer("DataStore.clear_all_data", <<>>, Returned, NoReq, NoBody)
    /\ UNCHANGED <<settings, cognito_keys_cache, provider_requests, now, tables, sequences,
                   in_flight, rds_client>>

----------------------------------------------------------------------------
(* The endpoints that read the in-memory store:                            *)
(* app/api/v1/endpoints/courses.py and professors.py.                      *)

RECURSIVE SumSeq(_, _)
\* sum(r.<field> for r in reviews)
SumSeq(seq, field) ==
    IF seq = <<>> THEN 0 ELSE Head(seq)[field] + SumSeq(Tail(seq), field)

\* round(total / count, 2) in hundredths, as <<hundredths>> (no quotient of
\* the model's sums falls half way between two hundredths)
Round2(total, count) == <<(200 * total + count) \div (2 * count)>>

\* str(int(rating))
Str(rating) ==
    CASE rating = 0 -> "0" [] rating = 1 -> "1" [] rating = 2 -> "2"
      [] rating = 3 -> "3" [] rating = 4 -> "4" [] rating = 5 -> "5"

\* a distribution that counts the difficulty rating
rating_distribution_of_difficulty(entity_reviews) ==
    [rating_key \in {"5", "4", "3", "2", "1"} |->
        Cardinality({i \in 1..Len(entity_reviews) :
                        Str(entity_reviews[i].difficulty_rating) = rating_key})]

\* the loop over the entity's reviews that fills rating_distribution
\* (courses.py and professors.py hold the same lines)
rating_distribution(entity_reviews) ==
    [rating_key \in {"5", "4", "3", "2", "1"} |->
        Cardinality({i \in 1..Len(entity_reviews) :
                        Str(entity_reviews[i].overall_rating) = rating_key})]

\* the reviews of a course: same course code and university, ignoring case
course_reviews(course) ==
    SelectSeq(Values(_reviews),
              LAMBDA review : /\ Lower(review.course_code) = Lower(course.code)
                              /\ Lower(review.university) = Lower(course.university))

\* the reviews of a professor: same professor name, ignoring case
professor_reviews(professor) ==
    SelectSeq(Values(_reviews),
              LAMBDA review : /\ Truthy(review.professor_name)
                              /\ Lower(review.professor_name) = Lower(professor.name))

\* the distinct truthy professor names of a list of reviews
professor_names(entity_reviews) ==
    {entity_reviews[i].professor_name : i \in 1..Len(entity_reviews)} \ {None, ""}

\* sorted(names)
Sorted(names) ==
    CHOOSE p \in Perms(names) : \A i, j \in 1..Len(p) : i < j => StrRank(p[i]) < StrRank(p[j])

\* GET /courses/{course_id}/stats
get_course_stats(course_id) ==
    LET req == [course_id |-> course_id] IN
    /\ IF course_id \notin DOMAIN _courses
       THEN resp' = Answer("get_course_stats", <<>>, 404, req, NoBody)
       ELSE LET course == _courses[course_id]
                found == course_reviews(course)
                total_reviews == Len(found)
            IN  IF total_reviews = 0
                THEN resp' = Answer("get_course_stats", <<>>, 200, req,
                         [course_id |-> course_id, course_code |-> course.code,
                          course_name |-> course.code, university |-> course.university,
                          total_reviews |-> 0,
                          average_overall_rating |-> NullAvg,
                          average_difficulty_rating |-> NullAvg,
                          average_workload_rating |-> NullAvg,
                          rating_distribution |-> [k \in {"5", "4", "3", "2", "1"} |-> 0],
                          professors |-> <<>>])
                ELSE resp' = Answer("get_course_stats", <<>>, 200, req,
                         [course_id |-> course_id, course_code |-> course.code,
                          course_name |-> course.code, university |-> course.university,
                          total_reviews |-> total_reviews,
                          average_overall_rating |->
                              Round2(SumSeq(found, "overall_rating"), total_reviews),
                          average_difficulty_rating |->
                              Round2(SumSeq(found, "difficulty_rating"), total_reviews),
                          average_workload_rating |->
                              Round2(SumSeq(found, "workload_rating"), total_reviews),
                          rating_distribution |-> rating_distribution(found),
                          professors |-> Sorted(professor_names(found))])
    /\ UNCHANGED <<settings, cognito_keys_cache, provider_requests, now, tables, sequences,
                   in_flight, data_store, rds_client>>

\* GET /professors/{professor_id}/stats
get_professor_stats(professor_id) ==
    LET req == [professor_id |-> professor_id] IN
    /\ IF professor_id \notin DOMAIN _professors
       THEN resp' = Answer("get_professor_stats", <<>>, 404, req, NoBody)
       ELSE LET professor == _professors[professor_id]
                found == professor_reviews(professor)
                total_reviews == Len(found)
            IN  IF total_reviews = 0
                THEN resp' = Answer("get_professor_stats", <<>>, 200, req,
                         [professor_id |-> professor_id, professor_name |-> professor.name,
                          university |-> professor.university,
                          total_reviews |-> 0,
                          average_overall_rating |-> NullAvg,
                          average_difficulty_rating |-> NullAvg,
                          average_workload_rating |-> NullAvg,
                          rating_distribution |-> [k \in {"5", "4", "3", "2", "1"} |-> 0]])
                ELSE resp' = Answer("get_professor_stats", <<>>, 200, req,
                         [professor_id |-> professor_id, professor_name |-> professor.name,
                          university |-> professor.university,
                          total_reviews |-> total_reviews,
                          average_overall_rating |->
                              Round2(SumSeq(found, "overall_rating"), total_reviews),
                          average_difficulty_rating |->
                              Round2(SumSeq(found, "difficulty_rating"), total_reviews),
                          average_workload_rating |->
                              Round2(SumSeq(found, "workload_rating"), total_reviews),
                          rating_distribution |-> rating_distribution(found)])
    /\ UNCHANGED <<settings, cognito_keys_cache, provider_requests, now, tables, sequences,
                   in_flight, data_store, rds_client>>

\* the entry get_course_professors appends for one professor name: the first
\* stored professor whose name equals it ignoring case, if there is one
professors_info(prof_name, found) ==
    LET matches == SelectSeq(Values(_professors),
                             LAMBDA p : Lower(p.name) = Lower(prof_name))
        prof_course_reviews ==
            SelectSeq(found, LAMBDA r : /\ Truthy(r.professor_name)
                                        /\ Lower(r.professor_name) = Lower(prof_name))
    IN  IF matches = <<>> THEN <<>>
        ELSE <<[id |-> Head(matches).id,
                name |-> Head(matches).name,
                university |-> Head(matches).university,
                reviews_for_this_course |-> Len(prof_course_reviews),
                average_rating_for_this_course |->
                    Round2(SumSeq(prof_course_reviews, "overall_rating"),
                           Len(prof_course_reviews))]>>

RECURSIVE Concat(_)
\* the concatenation of a sequence of sequences
Concat(seqs) ==
    IF seqs = <<>> THEN <<>> ELSE Head(seqs) \o Concat(Tail(seqs))

\* GET /courses/{course_id}/professors: one entry per distinct professor name
\* of the course's reviews, then sorted by the professor's name (entries with
\* the same name are equal, so the sorted list is the arrangement of the
\* names that leaves the entries in name order)
get_course_professors(course_id) ==
    LET req == [course_id |-> course_id] IN
    /\ IF course_id \notin DOMAIN _courses
       THEN resp' = Answer("get_course_professors", <<>>, 404, req, NoBody)
       ELSE LET found == course_reviews(_courses[course_id])
            IN  \E order \in Perms(professor_names(found)) :
                    LET info == Concat([i \in 1..Len(order) |->
                                           professors_info(order[i], found)])
                    IN  /\ \A i, j \in 1..Len(info) :
                               i < j => StrRank(info[i].name) <= StrRank(info[j].name)
                        /\ resp' = Answer("get_course_professors", <<>>, 200, req,
                                          [data |-> info])
    /\ UNCHANGED <<settings, cognito_keys_cache, provider_requests, now, tables, sequences,
                   in_flight, data_store, rds_client>>

----------------------------------------------------------------------------
(* The store specification: the in-memory store is filled through its      *)
(* methods and read by the course and professor endpoints.                 *)

\* review bodies given to DataStore.create_review
StoreBodies ==
    {RawBody(5, 3, 0, "Semester 1", 2024, "CS1", "Cloud", "NUS", "Tan", None),
     RawBody(0, 2, 4, "Semester 2", 2024, "cs1", None,    "nus", "TAN", None),
     RawBody(3, 1, 1, "Semester 1", 2024, "EE2", None,    "NUS", None,  None)}

StoreProfessors == {"Tan", "TAN"}

StoreInit == InitWith({SettingsDeployed}) /\ reviews = {}

StoreNext ==
    \/ _next_university_id <= MaxCatalogue /\ DataStore_create_university("NUS")
    \/ \E name \in StoreProfessors, university_id \in 1..(MaxCatalogue + 1) :
           _next_professor_id <= MaxStored /\ DataStore_create_professor(name, university_id)
    \/ \E university_id \in 1..(MaxCatalogue + 1) :
           _next_course_id <= MaxCatalogue /\ DataStore_create_course("CS1", university_id)
    \/ \E raw \in StoreBodies :
           _next_review_id <= MaxStored /\ DataStore_create_review(raw, "u1")
    \/ \E review_id \in 1..MaxStored : DataStore_delete_review(review_id)
    \/ DataStore_clear_all_data
    \/ \E course_id \in 1..(MaxCatalogue + 1) : get_course_stats(course_id)
    \/ \E professor_id \in 1..MaxStored : get_professor_stats(professor_id)
    \/ \E course_id \in 1..MaxCatalogue : get_course_professors(course_id)

StoreSpec == StoreInit /\ [][StoreNext]_vars

----------------------------------------------------------------------------
(* The update specification: a review is updated through PUT /reviews/{id} *)
(* (ReviewStorage.update) or through DataStore.update_review.  A process   *)
(* is wired to one of the two storages, so a behaviour works on the SQL    *)
(* tables or on the in-memory store, not on both.                          *)

\* the fields ReviewUpdate declares
ReviewUpdateFields ==
    {"overall_rating", "difficulty_rating", "workload_rating", "comment", "semester",
     "year", "professor_name"}

\* a schema that keeps every key of the body
ReviewUpdate_extra_allowed(raw) == raw

\* ReviewUpdate(**json).model_dump(exclude_unset=True): the declared fields the
\* body sets; pydantic ignores every other key
ReviewUpdate(raw) ==
    [f \in DOMAIN raw \cap ReviewUpdateFields |-> raw[f]]

\* JSON bodies of PUT /reviews/{id}: <<value>> for a value, <<>> for null
RawUpdates ==
    {[overall_rating |-> <<1>>, professor_name |-> <<>>],
     [comment |-> <<"hi">>, course_code |-> <<"EE2">>, user_id |-> <<"u2">>,
      created_at |-> <<1>>],
     [semester |-> <<>>]}

UpdateCaller == <<"Bearer", Token("k1", "ok", "u1")>>

UpdateInit == InitWith({SettingsDeployed}) /\ reviews = SeedReviews

\* the process uses the SQL storage / the in-memory store
SqlWired == _next_review_id = 1
StoreWired == next_review_id = 2

UpdateNext ==
    \/ /\ SqlWired
       /\ next_review_id <= MaxReviews
       /\ create_review(UpdateCaller, RawBody(5, 3, 0, "Semester 1", 2024, "CS1", "Cloud",
                                              "NUS", "Tan", "u2"), "keys")
    \/ \E a \in CallerHeaders, id \in 1..MaxReviews, raw \in RawUpdates :
           SqlWired /\ update_review(a, id, ReviewUpdate(raw), "keys")
    \/ \E raw \in {RawBody(5, 3, 0, "Semester 1", 2024, "CS1", "Cloud", "NUS", "Tan", None)} :
           StoreWired /\ _next_review_id <= MaxStored /\ DataStore_create_review(raw, "u1")
    \/ \E id \in 1..(MaxStored + 1), raw \in RawUpdates :
           StoreWired /\ DataStore_update_review(id, ReviewUpdate(raw))
    \/ Tick

UpdateSpec == UpdateInit /\ [][UpdateNext]_vars

----------------------------------------------------------------------------
(* The database client: app/infrastructure/rds_client.py, get_db_client of *)
(* app/api/v1/depends/storage.py and GET /health/detailed of app/main.py.  *)
(* calls is the log of the calls made on the client, each with its         *)
(* outcome.                                                                *)

\* the objects _create_engine() and sessionmaker(bind=engine) return
Engine == "Engine"
SessionFactory == "sessionmaker"

Call(op, outcome) == [op |-> op, outcome |-> outcome]

\* what the other actions leave unchanged when a method of the client runs
ClientFrame ==
    UNCHANGED <<settings, cognito_keys_cache, provider_requests, now, tables, sequences,
                in_flight, data_store, rds_environment, db_client, postgres, resp>>

\* RDSClient.initialize
RDSClient_initialize ==
    /\ _engine' = IF _engine = None THEN Engine ELSE _engine
    /\ _session_factory' = IF _engine = None THEN SessionFactory ELSE _session_factory
    /\ calls' = Append(calls, Call("initialize", "ok"))
    /\ ClientFrame

\* a close that drops the engine and keeps the session factory
RDSClient_close_engine_only ==
    /\ _engine' = None
    /\ _session_factory' = _session_factory
    /\ calls' = Append(calls, Call("close", "ok"))
    /\ ClientFrame

\* RDSClient.close
RDSClient_close ==
    /\ _engine' = None
    /\ _session_factory' = IF _engine # None THEN None ELSE _session_factory
    /\ calls' = Append(calls, Call("close", "ok"))
    /\ ClientFrame

\* RDSClient.engine (property)
RDSClient_engine ==
    /\ calls' = Append(calls, Call("engine",
                                   IF _engine = None THEN "RuntimeError" ELSE "ok"))
    /\ UNCHANGED <<_engine, _session_factory>>
    /\ ClientFrame

\* RDSClient.session_factory (property): the outcome of reading it
session_factory(factory) == IF factory = None THEN "RuntimeError" ELSE "ok"

\* reading RDSClient.session_factory
RDSClient_session_factory ==
    /\ calls' = Append(calls, Call("session_factory", session_factory(_session_factory)))
    /\ UNCHANGED <<_engine, _session_factory>>
    /\ ClientFrame

\* RDSClient.create_session: self.session_factory() opens no connection
RDSClient_create_session ==
    /\ calls' = Append(calls, Call("create_session", session_factory(_session_factory)))
    /\ UNCHANGED <<_engine, _session_factory>>
    /\ ClientFrame

\* with client.get_session(): entered with a body that runs no statement
RDSClient_get_session ==
    /\ calls' = Append(calls, Call("get_session", session_factory(_session_factory)))
    /\ UNCHANGED <<_engine, _session_factory>>
    /\ ClientFrame

\* a health check that never fails
health_check_always_true(factory) == TRUE

\* RDSClient.health_check: SELECT 1 in get_session(); every exception
\* (RuntimeError of session_factory, OperationalError of the server) gives False
health_check(factory) ==
    session_factory(factory) = "ok" /\ postgres = "up"

\* the database server stops or resumes answering
postgres_changes ==
    /\ postgres' = IF postgres = "up" THEN "down" ELSE "up"
    /\ UNCHANGED <<settings, cognito_keys_cache, provider_requests, now, tables, sequences,
                   in_flight, data_store, rds_environment, db_client, _engine,
                   _session_factory, calls, resp>>

\* the body of GET /health/detailed
health_status(status, database) ==
    [status |-> status, timestamp |-> now,
     checks |-> [application |-> "ok", database |-> database]]

\* GET /health/detailed: get_db_client() builds and initializes the client on
\* its first call (RDSSettings() raises when the environment lacks a required
\* field, and lru_cache keeps nothing then); the HTTPException raised for an
\* unhealthy database is caught by the handler's own except clause
health_check_detailed ==
    IF ~db_client /\ rds_environment = "unset"
    THEN /\ resp' = Answer("health_check_detailed", <<>>, 503, NoReq,
                           health_status("error", "error: ValidationError"))
         /\ UNCHANGED <<settings, cognito_keys_cache, provider_requests, now, tables,
                        sequences, in_flight, data_store, rds_client>>
    ELSE LET engine == IF ~db_client /\ _engine = None THEN Engine ELSE _engine
             factory == IF ~db_client /\ _engine = None THEN SessionFactory
                        ELSE _session_factory
             is_healthy == health_check(factory)
         IN  /\ db_client' = TRUE
             /\ _engine' = engine
             /\ _session_factory' = factory
             /\ calls' = calls \o (IF db_client THEN <<>> ELSE <<Call("initialize", "ok")>>)
                               \o <<Call("health_check", IF is_healthy THEN "True" ELSE "False")>>
             /\ resp' = IF is_healthy
                        THEN Answer("health_check_detailed", <<>>, 200, NoReq,
                                    health_status("ok", "ok"))
                        ELSE Answer("health_check_detailed", <<>>, 503, NoReq,
                                    health_status("error", "error: HTTPException"))
             /\ UNCHANGED <<settings, cognito_keys_cache, provider_requests, now, tables,
                            sequences, in_flight, data_store, rds_environment, postgres>>

ClientInit ==
    /\ settings = SettingsDeployed
    /\ cognito_keys_cache = NoCache
    /\ provider_requests = 0
    /\ now = 0
    /\ resp = NoAnswer
    /\ in_flight = {}
    /\ DataStore_init
    /\ RDSClient_init({"set", "unset"})
    /\ reviews = {} /\ courses = {} /\ universities = {}
    /\ next_review_id = 1 /\ next_course_id = 1 /\ next_university_id = 1

ClientNext ==
    \/ Len(calls) < MaxCalls /\ RDSClient_initialize
    \/ Len(calls) < MaxCalls /\ RDSClient_close
    \/ Len(calls) < MaxCalls /\ RDSClient_engine
    \/ Len(calls) < MaxCalls /\ RDSClient_session_factory
    \/ Len(calls) < MaxCalls /\ RDSClient_create_session
    \/ Len(calls) < MaxCalls /\ RDSClient_get_session
    \/ Len(calls) + (IF db_client THEN 1 ELSE 2) <= MaxCalls /\ health_check_detailed
    \/ postgres_changes

ClientSpec == ClientInit /\ [][ClientNext]_vars

----------------------------------------------------------------------------
(* PUT /reviews/{id} racing DELETE /reviews/{id}.  Each request runs in    *)
(* its own session (get_db_session) under PostgreSQL's READ COMMITTED, and *)
(* nothing locks the row between the statements of update_review: the      *)
(* SELECT of review_storage.get, the SELECT of ReviewStorage.update and    *)
(* the UPDATE of its flush.  in_flight holds the update requests that have *)
(* passed a statement and have not answered yet; delete_review commits as  *)
(* one step between them.                                                  *)

\* update_review requests being served at the same time
MaxInFlight == 1

\* an update_review request that has reached position
InFlight(authorization, review_id, update_data, position) ==
    [authorization |-> authorization, review_id |-> review_id,
     update_data |-> update_data, position |-> position]

\* what the statements of update_review leave unchanged
RaceFrame ==
    UNCHANGED <<settings, now, courses, universities, sequences, data_store, rds_client>>

\* update_review up to its ownership check: get_current_user,
\* review_storage.get, 404 and 403
update_review_check(authorization, review_id, update_data, fetch) ==
    LET auth == get_current_user(authorization, cognito_keys_cache, fetch)
        req == [review_id |-> review_id, update_data |-> update_data]
        found == Review_get(review_id)
    IN
    /\ cognito_keys_cache' = auth.cache
    /\ provider_requests' = provider_requests + auth.requests
    /\ UNCHANGED reviews
    /\ RaceFrame
    /\ IF auth.status = 401
       THEN /\ resp' = Answer("update_review", authorization, 401, NoReq, NoBody)
            /\ UNCHANGED in_flight
       ELSE IF found = {}
       THEN /\ resp' = Answer("update_review", authorization, 404, req, NoBody)
            /\ UNCHANGED in_flight
       ELSE \E review \in found :
            IF ~IsOwner(review, auth.user_id)
            THEN /\ resp' = Answer("update_review", authorization, 403, req, NoBody)
                 /\ UNCHANGED in_flight
            ELSE /\ in_flight' = in_flight \cup
                        {InFlight(authorization, review_id, update_data, "checked")}
                 /\ UNCHANGED resp

\* ReviewStorage.update, its SELECT: when the row is gone it returns None,
\* update_review returns that None, and the response fails the validation
\* against response_model=Review, which the framework answers with 500
update_review_select(request) ==
    /\ request \in in_flight
    /\ request.position = "checked"
    /\ IF Review_get(request.review_id) = {}
       THEN /\ in_flight' = in_flight \ {request}
            /\ resp' = Answer("update_review", request.authorization, 500,
                              [review_id |-> request.review_id,
                               update_data |-> request.update_data], NoBody)
       ELSE /\ in_flight' = (in_flight \ {request}) \cup
                                {[request EXCEPT !.position = "selected"]}
            /\ UNCHANGED resp
    /\ UNCHANGED <<cognito_keys_cache, provider_requests, reviews>>
    /\ RaceFrame

\* ReviewStorage.update from its setattr loop on, and the commit: the UPDATE
\* of a row deleted since the SELECT matches no row (StaleDataError), a null
\* in a NOT NULL column raises IntegrityError; get_db_session rolls back and
\* re-raises both
update_review_flush(request) ==
    LET req == [review_id |-> request.review_id, update_data |-> request.update_data]
        found == Review_get(request.review_id)
    IN
    /\ request \in in_flight
    /\ request.position = "selected"
    /\ in_flight' = in_flight \ {request}
    /\ IF found = {} \/ UpdateViolatesNotNull(request.update_data)
       THEN /\ resp' = Answer("update_review", request.authorization, 500, req, NoBody)
            /\ UNCHANGED reviews
       ELSE \E review \in found :
            LET updated == Review_update(review, request.update_data) IN
            /\ reviews' = (reviews \ {review}) \cup {updated}
            /\ resp' = Answer("update_review", request.authorization, 200, req,
                              Review_model_validate(updated))
    /\ UNCHANGED <<cognito_keys_cache, provider_requests>>
    /\ RaceFrame

RaceInit == InitWith({SettingsDeployed})

\* bodies of PUT /reviews/{id} that the flush accepts on an existing row
RaceBodies == {u \in UpdateBodies : ~UpdateViolatesNotNull(u)}

RaceNext ==
    \/ \E a \in CallerHeaders :
           /\ next_review_id <= MaxReviews
           /\ create_review(a, RawBody(5, 3, 0, "Semester 1", 2024, "CS1", "Cloud",
                                       "NUS", "Tan", None), "keys")
    \/ \E a \in CallerHeaders, id \in 1..MaxReviews, u \in RaceBodies :
           /\ Cardinality(in_flight) < MaxInFlight
           /\ update_review_check(a, id, u, "keys")
    \/ \E request \in in_flight : update_review_select(request)
    \/ \E request \in in_flight : update_review_flush(request)
    \/ \E a \in CallerHeaders, id \in 1..MaxReviews : delete_review(a, id, "keys")
    \/ Tick

RaceSpec == RaceInit /\ [][RaceNext]_vars

----------------------------------------------------------------------------
(* Concurrent POST /reviews/.  Each request runs in one transaction of its *)
(* own (get_db_session commits after the handler returns) under            *)
(* PostgreSQL's READ COMMITTED: a SELECT sees what has been committed, an  *)
(* INSERT stays invisible to the other requests until the commit, and the  *)
(* sequences hand out ids outside the transaction.  universities.name is   *)
(* UNIQUE; courses carries no unique constraint (models/course.py).        *)
(* in_flight holds the requests between two of their statements.           *)

\* create_review requests being served at the same time
MaxCreating == 2

\* a create_review request that has reached position: university and course
\* hold the row the request uses, when it has one; pending tells that the
\* university row was inserted by this request and is not committed yet
Creating(authorization, user_id, raw, position, university, pending, course) ==
    [authorization |-> authorization, user_id |-> user_id, raw |-> raw,
     position |-> position, university |-> university, pending |-> pending,
     course |-> course]

\* what the statements of create_review leave unchanged
CreateFrame == UNCHANGED <<settings, now, data_store, rds_client>>

\* create_review up to the SELECT of university_storage.get_or_create
create_review_select_university(authorization, raw, fetch) ==
    LET auth == get_current_user(authorization, cognito_keys_cache, fetch)
        ufound == University_get_by_name(ReviewCreate(raw).university)
    IN
    /\ cognito_keys_cache' = auth.cache
    /\ provider_requests' = provider_requests + auth.requests
    /\ UNCHANGED <<tables, sequences>>
    /\ CreateFrame
    /\ IF auth.status = 401
       THEN /\ resp' = Answer("create_review", authorization, 401, NoReq, NoBody)
            /\ UNCHANGED in_flight
       ELSE /\ \E university \in (IF ufound = {} THEN {{}} ELSE {{u} : u \in ufound}) :
                   in_flight' = in_flight \cup
                       {Creating(authorization, auth.user_id, raw, "university_selected",
                                 university, FALSE, {})}
            /\ UNCHANGED resp

\* the INSERT of this name by another request is not committed yet: an INSERT
\* of the same name waits for that transaction to end
UniversityInsertWaits(request, name) ==
    \E other \in in_flight \ {request} :
        other.pending /\ \E u \in other.university : u.name = name

\* create_review from the INSERT of university_storage.get_or_create (when
\* its SELECT found nothing) to the SELECT of course_storage.get_or_create.
\* An INSERT of a name committed since the SELECT violates the unique
\* constraint: IntegrityError, rollback, 500; the id drawn from the sequence
\* is lost.
create_review_select_course(request) ==
    LET review_in == ReviewCreate(request.raw)
        inserts == request.university = {}
        university == IF inserts THEN University_create(review_in.university)
                      ELSE CHOOSE u \in request.university : TRUE
        cfound == Course_get_by_code_and_university(review_in.course_code, university.name)
    IN
    /\ request \in in_flight
    /\ request.position = "university_selected"
    /\ inserts => ~UniversityInsertWaits(request, review_in.university)
    /\ next_university_id' = IF inserts THEN next_university_id + 1 ELSE next_university_id
    /\ IF inserts /\ University_get_by_name_exact(review_in.university) # {}
       THEN /\ in_flight' = in_flight \ {request}
            /\ resp' = Answer("create_review", request.authorization, 500,
                              request.raw, NoBody)
       ELSE /\ \E course \in (IF cfound = {} THEN {{}} ELSE {{c} : c \in cfound}) :
                   in_flight' = (in_flight \ {request}) \cup
                       {[request EXCEPT !.position = "course_selected",
                                        !.university = {university},
                                        !.pending = inserts,
                                        !.course = course]}
            /\ UNCHANGED resp
    /\ UNCHANGED <<cognito_keys_cache, provider_requests, tables,
                   next_review_id, next_course_id>>
    /\ CreateFrame

\* create_review from the INSERT of course_storage.get_or_create (when its
\* SELECT found nothing) through review_storage.create to the commit
create_review_commit(request) ==
    LET review_in == ReviewCreate(request.raw)
        university == CHOOSE u \in request.university : TRUE
        course_name == IF Truthy(review_in.course_name) THEN review_in.course_name
                       ELSE review_in.course_code
        created == IF request.course # {} THEN {}
                   ELSE {Course_create(review_in.course_code, course_name,
                                       university.id, university.name)}
        review == Review_create(review_in, request.user_id)
    IN
    /\ request \in in_flight
    /\ request.position = "course_selected"
    /\ in_flight' = in_flight \ {request}
    /\ universities' = universities \cup request.university
    /\ courses' = courses \cup created
    /\ next_course_id' = IF created = {} THEN next_course_id ELSE next_course_id + 1
    /\ reviews' = reviews \cup {review}
    /\ next_review_id' = next_review_id + 1
    /\ resp' = Answer("create_review", request.authorization, 201, request.raw,
                      Review_model_validate(review))
    /\ UNCHANGED <<cognito_keys_cache, provider_requests, next_university_id>>
    /\ CreateFrame

CreateRaceInit == InitWith({SettingsDeployed})

\* JSON bodies of POST /reviews/ that name one course of one university in
\* two spellings
CreateRaceBodies ==
    {RawBody(5, 3, 0, "Semester 1", 2024, "EE2", "Circuits", "NUS", "Tan", None),
     RawBody(4, 4, 4, "Semester 2", 2024, "ee2", None, "nus", None, None)}

CreateRaceNext ==
    \/ \E a \in CallerHeaders, raw \in CreateRaceBodies :
           /\ Cardinality(in_flight) < MaxCreating
           /\ next_review_id + Cardinality(in_flight) <= MaxReviews
           /\ create_review_select_university(a, raw, "keys")
    \/ \E request \in in_flight : create_review_select_course(request)
    \/ \E request \in in_flight : create_review_commit(request)
    \/ list_courses(<<>>, None, None, 0, MaxLimit)
    \/ Tick

CreateRaceSpec == CreateRaceInit /\ [][CreateRaceNext]_vars

----------------------------------------------------------------------------
(* The reviews of the in-memory store under every sequence of              *)
(* create_review, update_review, delete_review and clear_all_data.         *)

ReviewIdInit == InitWith({SettingsDeployed}) /\ reviews = {}

\* JSON bodies of PUT /reviews/{id} sent to the store, with and without keys
\* that are no field of ReviewUpdate
ReviewIdUpdates ==
    {[overall_rating |-> <<1>>],
     [id |-> <<3>>, comment |-> <<"edited">>]}

ReviewIdNext ==
    \/ /\ _next_review_id <= MaxStored + 1
       /\ DataStore_create_review(RawBody(5, 3, 0, "Semester 1", 2024, "CS1", "Cloud",
                                          "NUS", "Tan", None), "u1")
    \/ \E review_id \in 1..(MaxStored + 1), raw \in ReviewIdUpdates :
           DataStore_update_review(review_id, ReviewUpdate(raw))
    \/ \E review_id \in 1..(MaxStored + 1) : DataStore_delete_review(review_id)
    \/ DataStore_clear_all_data
    \/ Tick

ReviewIdSpec == ReviewIdInit /\ [][ReviewIdNext]_vars

----------------------------------------------------------------------------
(* Properties. *)

\* the user a request's bearer token names
TokenSub(authorization) == authorization[2].sub

\* the header is "Bearer <token>" (any letter case of the scheme) and the
\* token is signed by a key of the provider, unexpired and issued to the client
CarriesValidToken(authorization) ==
    /\ Len(authorization) = 2
    /\ authorization[1] \in {"Bearer", "bearer", "BEARER"}
    /\ authorization[2].kid \in ProviderKeys
    /\ authorization[2].sig = "ok"

AuthenticatedOps == {"create_review", "get_my_reviews", "update_review", "delete_review"}
PublicOps == {"list_reviews", "get_review", "get_review_stats"}

\* C1: update_review and delete_review change or remove a stored review only
\* when the caller owns it; for another caller the answer is 403 and the
\* reviews table is unchanged.
C1_OnlyOwnerMutates ==
    [][(resp'.op \in {"update_review", "delete_review"} /\ resp'.status # 401) =>
          \A r \in reviews :
              /\ r \notin reviews' =>
                    (r.id = resp'.req.review_id /\ r.user_id = TokenSub(resp'.authorization))
              /\ (r.id = resp'.req.review_id /\ r.user_id # TokenSub(resp'.authorization)) =>
                    (resp'.status = 403 /\ reviews' = reviews)]_vars

\* a caller was refused the update of a review another user owns
C1_Witness ==
    /\ resp.op = "update_review"
    /\ resp.status = 403
    /\ \E r \in reviews : /\ r.id = resp.req.review_id
                          /\ r.user_id \in {"u1", "u2"}
                          /\ r.user_id # TokenSub(resp.authorization)

\* C2: the four authenticated endpoints act only for a verified bearer token;
\* without one the answer is 401 and reviews, courses and universities are
\* unchanged; the three public endpoints never answer 401.
C2_TokenRequired ==
    [][/\ (resp'.op \in AuthenticatedOps /\ ~CarriesValidToken(resp'.authorization)) =>
              (resp'.status = 401 /\ tables' = tables)
       /\ (resp'.op \in AuthenticatedOps /\ resp'.status = 401) => tables' = tables
       /\ tables' # tables => CarriesValidToken(resp'.authorization)
       /\ resp'.op \in PublicOps => resp'.status # 401]_vars

\* a token with a bad signature was refused after the keys had been fetched
C2_Witness ==
    /\ resp.op \in AuthenticatedOps
    /\ resp.status = 401
    /\ Len(resp.authorization) = 2
    /\ resp.authorization[1] = "Bearer"
    /\ resp.authorization[2].sig = "invalid"
    /\ cognito_keys_cache.cached
    /\ reviews # {}

\* C3: a review created through create_review is stored with the user_id of
\* the caller's token, whatever the request body carries.
C3_CreatedReviewOwnedByCaller ==
    (resp.op = "create_review" /\ resp.status = 201) =>
        /\ resp.body.user_id = TokenSub(resp.authorization)
        /\ \E r \in reviews : /\ r.id = resp.body.id
                              /\ r.user_id = TokenSub(resp.authorization)

\* a body that names another user was stored under the caller's id
C3_Witness ==
    /\ resp.op = "create_review"
    /\ resp.status = 201
    /\ resp.req.user_id = "u2"
    /\ TokenSub(resp.authorization) = "u1"

\* the listing order of the claims: year, then semester rank, then created_at,
\* all descending
ClaimRank(semester) ==
    IF semester = "Summer Session" THEN 6
    ELSE IF semester = "Special Term 2" THEN 5
    ELSE IF semester = "Semester 2" THEN 4
    ELSE IF semester = "Winter Session" THEN 3
    ELSE IF semester = "Special Term 1" THEN 2
    ELSE IF semester = "Semester 1" THEN 1
    ELSE 0

NotAfter(a, b) ==
    \/ a.year > b.year
    \/ a.year = b.year /\ ClaimRank(a.semester) > ClaimRank(b.semester)
    \/ a.year = b.year /\ ClaimRank(a.semester) = ClaimRank(b.semester)
       /\ a.created_at >= b.created_at

InListingOrder(list) ==
    \A i, j \in 1..Len(list) : i < j => NotAfter(list[i], list[j])

\* list is the window skip .. skip+limit-1 of some listing-ordered
\* arrangement of the set of reviews
IsWindowOf(list, set, skip, limit) ==
    \E full \in Perms(set) :
        /\ InListingOrder(full)
        /\ Len(list) = Min(limit, Max(0, Len(full) - skip))
        /\ \A k \in 1..Len(list) : list[k] = full[skip + k]

\* stored reviews as the response schema shows them
Shown(rows) == {Review_model_validate(r) : r \in rows}

\* C4: get_my_reviews returns exactly the caller's stored reviews, in listing
\* order within the skip/limit window, and no review of another user or of nobody.
C4_MyReviewsAreMine ==
    (resp.op = "get_my_reviews" /\ resp.status = 200) =>
        /\ \A k \in 1..Len(resp.body) :
               resp.body[k].user_id = TokenSub(resp.authorization)
        /\ IsWindowOf(resp.body,
                      Shown({r \in reviews : r.user_id = TokenSub(resp.authorization)}),
                      resp.req.skip, resp.req.limit)

\* the caller got a review back while another user's review is stored
C4_Witness ==
    /\ resp.op = "get_my_reviews"
    /\ resp.status = 200
    /\ Len(resp.body) >= 1
    /\ \E r \in reviews : r.user_id # TokenSub(resp.authorization)

\* C5: get_review, update_review and delete_review answer 404 for an id no
\* stored review has, for every caller, and change nothing.
C5_UnknownIdIs404 ==
    [][(/\ resp' # resp
        /\ resp'.op \in {"get_review", "update_review", "delete_review"}
        /\ resp'.status # 401
        /\ \A r \in reviews : r.id # resp'.req.review_id) =>
          (resp'.status = 404 /\ tables' = tables)]_vars

\* an authenticated caller asked to delete an id that is not stored while
\* other reviews are
C5_Witness ==
    /\ resp.op = "delete_review"
    /\ resp.status = 404
    /\ reviews # {}
    /\ \A r \in reviews : r.id # resp.req.review_id

Supplied(value) == value # None

\* a filter value was given and is not the empty string
SuppliedNonEmpty(value) == value # None /\ value # ""

EqualsIgnoringCase(a, b) == a # None /\ Lower(a) = Lower(b)

\* the filters of a listing request: list_reviews carries the three text
\* filters, get_my_reviews the caller's user_id
FiltersOf(r) ==
    IF r.op = "get_my_reviews"
    THEN [professor_name |-> None, course_code |-> None, university |-> None,
          user_id |-> TokenSub(r.authorization)]
    ELSE [professor_name |-> r.req.professor_name, course_code |-> r.req.course_code,
          university |-> r.req.university, user_id |-> None]

\* the stored reviews matching every filter that counts as given
Matching(f, given(_)) ==
    {r \in reviews :
        /\ given(f.professor_name) => EqualsIgnoringCase(r.professor_name, f.professor_name)
        /\ given(f.course_code) => EqualsIgnoringCase(r.course_code, f.course_code)
        /\ given(f.university) => EqualsIgnoringCase(r.university_name, f.university)
        /\ Supplied(f.user_id) => r.user_id = f.user_id}

\* the request reached filter_reviews (list_reviews calls get_all when every
\* filter is empty or absent)
ReachedFilterReviews ==
    /\ resp.status = 200
    /\ \/ resp.op = "get_my_reviews"
       \/ /\ resp.op = "list_reviews"
          /\ \/ SuppliedNonEmpty(resp.req.professor_name)
             \/ SuppliedNonEmpty(resp.req.course_code)
             \/ SuppliedNonEmpty(resp.req.university)

\* the list holds only reviews of the set, none twice, and as many as the
\* skip/limit window of the set has
ExactlyWithinWindow(list, set, skip, limit) ==
    /\ \A k \in 1..Len(list) : list[k] \in set
    /\ \A i, j \in 1..Len(list) : i # j => list[i] # list[j]
    /\ Len(list) = Min(limit, Max(0, Cardinality(set) - skip))

\* C7 as stated: filter_reviews returns exactly the reviews matching every
\* supplied filter, an empty string being a supplied value like any other.
C7_MatchesEverySuppliedFilter ==
    ReachedFilterReviews =>
        ExactlyWithinWindow(resp.body, Shown(Matching(FiltersOf(resp), Supplied)),
                            resp.req.skip, resp.req.limit)

\* C7 amended: filter_reviews returns exactly the reviews matching every
\* supplied non-empty filter (text filters ignoring case, user_id exactly); an
\* absent or empty professor_name, course_code or university excludes nothing.
C7_MatchesEveryNonEmptyFilter ==
    ReachedFilterReviews =>
        ExactlyWithinWindow(resp.body, Shown(Matching(FiltersOf(resp), SuppliedNonEmpty)),
                            resp.req.skip, resp.req.limit)

\* a filter in another letter case than the stored value selected one of two reviews
C7_Witness ==
    /\ resp.op = "list_reviews"
    /\ resp.status = 200
    /\ resp.req.professor_name = "tan"
    /\ Cardinality(reviews) = 2
    /\ Len(resp.body) = 1
    /\ resp.body[1].professor_name \in {"Tan", "TAN"}

\* C8: list_reviews returns at most limit reviews, the entries at positions
\* skip .. skip+limit-1 of the full ordered list of matching reviews.
C8_PageIsWindow ==
    (resp.op = "list_reviews" /\ resp.status = 200) =>
        /\ Len(resp.body) <= resp.req.limit
        /\ IsWindowOf(resp.body, Shown(Matching(FiltersOf(resp), SuppliedNonEmpty)),
                      resp.req.skip, resp.req.limit)

\* the second of two matching reviews was returned for skip 1
C8_Witness ==
    /\ resp.op = "list_reviews"
    /\ resp.status = 200
    /\ resp.req.skip = 1
    /\ Len(resp.body) = 1
    /\ Cardinality(Matching(FiltersOf(resp), SuppliedNonEmpty)) = 2

\* the sum of a rating column (values 0..5) over a set of rows
Total(rows, col) ==
    1 * Cardinality({r \in rows : r[col] = 1}) + 2 * Cardinality({r \in rows : r[col] = 2})
    + 3 * Cardinality({r \in rows : r[col] = 3}) + 4 * Cardinality({r \in rows : r[col] = 4})
    + 5 * Cardinality({r \in rows : r[col] = 5})

\* avg is null exactly when there are no rows, and else the mean of col
IsMeanOf(avg, rows, col) ==
    /\ avg = NullAvg <=> rows = {}
    /\ avg # NullAvg => avg[1] * Cardinality(rows) = Total(rows, col) * avg[2]

\* C9: get_stats returns the number of matching reviews and the arithmetic
\* mean of each rating over them; an average is null exactly when no review
\* matches.
C9_StatsAreCountAndMeans ==
    resp.op = "get_review_stats" =>
        LET rows == Matching([professor_name |-> resp.req.professor_name,
                              course_code |-> resp.req.course_code,
                              university |-> resp.req.university,
                              user_id |-> None], SuppliedNonEmpty)
        IN  /\ resp.body.review_count = Cardinality(rows)
            /\ IsMeanOf(resp.body.avg_overall_rating, rows, "overall_rating")
            /\ IsMeanOf(resp.body.avg_difficulty_rating, rows, "difficulty_rating")
            /\ IsMeanOf(resp.body.avg_workload_rating, rows, "workload_rating")

\* C10: the review_count list_courses returns for a course is the number of
\* stored reviews with its course code and university, ignoring case (stated
\* for tables that hold only reviews created through the service).
C10_ReviewCountIsNumberOfReviews ==
    (resp.op = "list_courses" /\ reviews \cap SeedReviews = {}) =>
        \A k \in 1..Len(resp.body) :
            resp.body[k].review_count =
                Cardinality({r \in reviews :
                                /\ Lower(r.course_code) = Lower(resp.body[k].code)
                                /\ Lower(r.university_name) = Lower(resp.body[k].university)})

\* C11: when create_review is called without a course_name for a course code
\* and university that already exist in the courses table (ignoring case), the
\* stored review's course_name is that course's name.
C11_CourseNameFromCoursesTable ==
    [][(next_review_id' # next_review_id /\ resp'.req.course_name = None) =>
          \A c \in Course_get_by_code_and_university(resp'.req.course_code,
                                                       resp'.req.university_name) :
              \A r \in reviews' \ reviews : r.course_name = c.name]_vars

\* C12: after every successful create_review a university whose name equals
\* the review's university ignoring case exists, and a course with the
\* review's course code at that university exists; when they existed before
\* the request (names differing at most in letter case) they are reused and
\* no row is added.
C12_UniversityAndCourseGetOrCreate ==
    [][next_review_id' # next_review_id =>
          LET name == resp'.req.university_name
              code == resp'.req.course_code
              named(us) == {u \in us : Lower(u.name) = Lower(name)}
              coded(cs, us) == {c \in cs : /\ Lower(c.code) = Lower(code)
                                           /\ c.university_id \in {u.id : u \in named(us)}}
          IN  /\ named(universities') # {}
              /\ coded(courses', universities') # {}
              /\ named(universities) # {} => universities' = universities
              /\ coded(courses, universities) # {} => courses' = courses
              /\ Cardinality(universities') <= Cardinality(universities) + 1
              /\ Cardinality(courses') <= Cardinality(courses) + 1]_vars

\* a review naming "cs1" at "nus" was stored while the only university is
\* "NUS" and the only course is "CS1"
C12_Witness ==
    /\ resp.op = "create_review"
    /\ resp.status = 201
    /\ resp.req.university_name = "nus"
    /\ resp.req.course_code = "cs1"
    /\ {u.name : u \in universities} = {"NUS"}
    /\ {c.code : c \in courses} = {"CS1"}
    /\ Cardinality(universities) = 1
    /\ Cardinality(courses) = 1
    /\ Cardinality(reviews) = 2

\* the Authorization header is missing, is not "Bearer <token>" in any letter
\* case of the scheme, carries a token that fails verification (unknown or
\* missing key id, bad signature, expired) or a payload without sub
LacksUsableToken(authorization) ==
    \/ Len(authorization) # 2
    \/ authorization[1] \notin {"Bearer", "bearer", "BEARER"}
    \/ authorization[2].kid \notin ProviderKeys
    \/ authorization[2].sig # "ok"
    \/ authorization[2].sub = None

\* C15: get_current_user answers 401 whenever the Authorization header is
\* missing, is not of the form "Bearer <token>", carries a token that fails
\* verification or a payload without sub; whenever it returns, the user_id it
\* returns is non-empty.  Stated for every header a request can carry in the
\* current state of the process, and for the answers the endpoints gave.
C15_RejectsOrNamesUser ==
    /\ \A authorization \in Headers, fetch \in FetchOutcomes :
           LET user == get_current_user(authorization, cognito_keys_cache, fetch)
           IN  /\ user.status \in {200, 401}
               /\ LacksUsableToken(authorization) => user.status = 401
               /\ user.status = 200 => (user.user_id # None /\ user.user_id # "")
    /\ (resp.op \in AuthenticatedOps /\ LacksUsableToken(resp.authorization)) =>
           resp.status = 401
    /\ (resp.op = "create_review" /\ resp.status = 201) =>
           (resp.body.user_id # None /\ resp.body.user_id # "")

\* a well-signed token whose payload has an empty sub was refused after the
\* keys had been fetched, and a header naming a user would now be accepted
C15_Witness ==
    /\ resp.op = "create_review"
    /\ resp.status = 401
    /\ Len(resp.authorization) = 2
    /\ resp.authorization[2].sig = "ok"
    /\ resp.authorization[2].kid \in ProviderKeys
    /\ resp.authorization[2].sub = ""
    /\ cognito_keys_cache.keys = ProviderKeys
    /\ \E authorization \in CallerHeaders :
           get_current_user(authorization, cognito_keys_cache, "keys").status = 200

\* C16: once get_cognito_public_keys has fetched the key set, every later
\* call in the process returns the cached key set and sends no request to the
\* identity provider: no step changes the cache or the number of requests
\* made, and a call returns the cached keys whatever the provider would answer.
C16_CachedKeysAreReused ==
    [][cognito_keys_cache.cached =>
          /\ cognito_keys_cache' = cognito_keys_cache
          /\ provider_requests' = provider_requests
          /\ \A fetch \in FetchOutcomes :
                 LET k == get_cognito_public_keys(cognito_keys_cache, fetch)
                 IN  k.ok /\ k.keys = cognito_keys_cache.keys /\ k.requests = 0]_vars

\* the first key request failed, the second succeeded while a review was
\* created, and the token of a later create was verified without a third request
C16_Witness ==
    /\ cognito_keys_cache = [cached |-> TRUE, keys |-> ProviderKeys]
    /\ provider_requests = 2
    /\ Cardinality({r \in reviews : r.user_id \in {"u1", "u2"}}) = 2
    /\ resp.op = "create_review"
    /\ resp.status = 201

\* the stored reviews of the entity a stats answer describes: for a course
\* those with its course code and university, for a professor those naming
\* the professor, ignoring case
ReviewsOfEntity ==
    LET stored == {_reviews[id] : id \in DOMAIN _reviews} IN
    IF resp.op = "get_course_stats"
    THEN {r \in stored : /\ EqualsIgnoringCase(r.course_code, resp.body.course_code)
                         /\ EqualsIgnoringCase(r.university, resp.body.university)}
    ELSE {r \in stored : EqualsIgnoringCase(r.professor_name, resp.body.professor_name)}

\* the key of rating_distribution for the rating k
RatingKey(k) == <<"1", "2", "3", "4", "5">>[k]

\* C13: get_course_stats and get_professor_stats return a rating_distribution
\* in which, for each k in 1..5, the count under key k is the number of the
\* entity's reviews whose overall_rating is k; when the entity has no reviews,
\* total_reviews is 0, every count is 0 and the three averages are null.
C13_DistributionCountsRatings ==
    (resp.op \in {"get_course_stats", "get_professor_stats"} /\ resp.status = 200) =>
        /\ DOMAIN resp.body.rating_distribution = {RatingKey(k) : k \in 1..5}
        /\ \A k \in 1..5 :
               resp.body.rating_distribution[RatingKey(k)] =
                   Cardinality({r \in ReviewsOfEntity : r.overall_rating = k})
        /\ ReviewsOfEntity = {} =>
               /\ resp.body.total_reviews = 0
               /\ \A k \in 1..5 : resp.body.rating_distribution[RatingKey(k)] = 0
               /\ resp.body.average_overall_rating = NullAvg
               /\ resp.body.average_difficulty_rating = NullAvg
               /\ resp.body.average_workload_rating = NullAvg

\* a professor has two reviews under different spellings of the name, one
\* rated 5 and one rated 0, and the distribution counts the 5
C13_Witness ==
    /\ resp.op = "get_professor_stats"
    /\ resp.status = 200
    /\ resp.body.total_reviews = 2
    /\ resp.body.rating_distribution["5"] = 1
    /\ \E r \in ReviewsOfEntity : r.overall_rating = 0
    /\ {r.professor_name : r \in ReviewsOfEntity} = {"Tan", "TAN"}

\* C19: get_course_professors lists each professor at most once: no two
\* entries of its answer carry the same professor id, whatever reviews the
\* course has, reviews that spell one professor's name in different letter
\* case included.
C19_EachProfessorOnce ==
    (resp.op = "get_course_professors" /\ resp.status = 200) =>
        \A i, j \in 1..Len(resp.body.data) :
            i # j => resp.body.data[i].id # resp.body.data[j].id

\* the fields of a stored review no update may change
FrozenOnUpdate ==
    {"id", "user_id", "course_code", "course_name", "university", "university_name",
     "created_at"}

\* after differs from before at most in updated_at and in fields the update
\* request sets, and in none of the frozen fields
ChangedOnlyAsRequested(before, after, update_data) ==
    /\ DOMAIN after = DOMAIN before
    /\ \A f \in DOMAIN before :
           (f \in FrozenOnUpdate \/ (f \notin DOMAIN update_data /\ f # "updated_at")) =>
               after[f] = before[f]

\* C14: updating a review (ReviewStorage.update through PUT /reviews/{id},
\* DataStore.update_review) changes only the fields present in the update
\* request plus updated_at: the review's id, user_id, course_code, course_name,
\* university and created_at, every field absent from the request and every
\* other stored review are left unchanged, and no review is added or removed.
C14_UpdateChangesOnlyRequestedFields ==
    [][/\ (resp'.op = "update_review" /\ resp'.status = 401) => reviews' = reviews
       /\ (resp'.op = "update_review" /\ resp'.status # 401) =>
              /\ {r.id : r \in reviews'} = {r.id : r \in reviews}
              /\ Cardinality(reviews') = Cardinality(reviews)
              /\ \A r \in reviews :
                     \/ r \in reviews'
                     \/ /\ r.id = resp'.req.review_id
                        /\ \E after \in reviews' :
                               /\ after.id = r.id
                               /\ ChangedOnlyAsRequested(r, after, resp'.req.update_data)
       /\ resp'.op = "DataStore.update_review" =>
              /\ DOMAIN _reviews' = DOMAIN _reviews
              /\ \A id \in DOMAIN _reviews :
                     \/ _reviews'[id] = _reviews[id]
                     \/ /\ id = resp'.req.review_id
                        /\ ChangedOnlyAsRequested(_reviews[id], _reviews'[id],
                                                  resp'.req.update_data)]_vars

\* the owner's update of one of two stored reviews, sent with a comment and
\* with keys ReviewUpdate does not declare, was stored at a later time than
\* the review was created
C14_Witness ==
    /\ resp.op = "update_review"
    /\ resp.status = 200
    /\ DOMAIN resp.req.update_data = {"comment"}
    /\ resp.body.comment = "hi"
    /\ resp.body.course_code = "CS1"
    /\ resp.body.created_at = 0
    /\ resp.body.updated_at = 1
    /\ Cardinality(reviews) = 2
    /\ \E r \in reviews : r.id = resp.body.id /\ r.comment = "hi" /\ r.user_id = "u1"

\* the database check of a health request passes: the client can be built
\* from the environment, it has not been closed, and the server answers
DatabaseCheckPasses ==
    /\ db_client \/ rds_environment = "set"
    /\ db_client => _session_factory # None
    /\ postgres = "up"

\* C17: health_check_detailed returns 200 with status "ok" and database "ok"
\* when the database check passes, and answers 503 whenever the check returns
\* false or raises.
C17_HealthFollowsDatabaseCheck ==
    [][(/\ resp'.op = "health_check_detailed"
        /\ \/ resp' # resp
           \/ calls' # calls /\ calls'[Len(calls')].op = "health_check") =>
          IF DatabaseCheckPasses
          THEN /\ resp'.status = 200
               /\ resp'.body.status = "ok"
               /\ resp'.body.checks.database = "ok"
          ELSE /\ resp'.status = 503
               /\ resp'.body.status # "ok"
               /\ resp'.body.checks.database # "ok"]_vars

\* the health request of a process whose client had been closed was answered
\* 503 while the server was up, after an earlier request had been answered
C17_Witness ==
    /\ resp.op = "health_check_detailed"
    /\ resp.status = 503
    /\ postgres = "up"
    /\ db_client
    /\ \E i, j, k \in 1..Len(calls) :
           /\ i < j /\ j < k
           /\ calls[i] = Call("health_check", "True")
           /\ calls[j].op = "close"
           /\ calls[k] = Call("health_check", "False")

\* the most recent initialize() or close() before the i-th call ("none" when
\* there is none)
LastLifecycleCall(i) ==
    LET before == {j \in 1..(i - 1) : calls[j].op \in {"initialize", "close"}}
    IN  IF before = {} THEN "none"
        ELSE calls[CHOOSE j \in before : \A k \in before : k <= j].op

\* C18: after any sequence of initialize() and close() calls on an RDSClient,
\* engine, session_factory, create_session and get_session succeed if and only
\* if the most recent of those calls was initialize(); in every other state
\* (never initialized, or closed) they raise RuntimeError.
C18_UsableIffInitializedLast ==
    \A i \in 1..Len(calls) :
        calls[i].op \in {"engine", "session_factory", "create_session", "get_session"} =>
            IF LastLifecycleCall(i) = "initialize"
            THEN calls[i].outcome = "ok"
            ELSE calls[i].outcome = "RuntimeError"

\* a session was created after initialize(), and the session factory was
\* refused after the close() that followed
C18_Witness ==
    \E i, j, k, l \in 1..Len(calls) :
        /\ i < j /\ j < k /\ k < l
        /\ calls[i].op = "initialize"
        /\ calls[j] = Call("create_session", "ok")
        /\ calls[k].op = "close"
        /\ calls[l] = Call("session_factory", "RuntimeError")

\* C20: when a delete_review of a review commits between update_review's
\* existence/ownership check and its update of that review, update_review
\* still answers with the updated review, 404 or 403: never success with an
\* empty body and never an internal error.  A request in flight has seen its
\* review, and ids are not reused, so the review being absent when the
\* request answers means a delete committed in between.
C20_UpdateSurvivesConcurrentDelete ==
    [][\A request \in in_flight :
          (request \notin in_flight' /\ Review_get(request.review_id) = {}) =>
              /\ resp'.op = "update_review"
              /\ resp'.status \in {200, 403, 404}
              /\ resp'.status = 200 => resp'.body # NoBody]_vars

\* C21: after any interleaving of concurrent create_review requests, each in
\* its own transaction, the courses table holds at most one course per
\* (course code, university) pair compared ignoring case.
C21_OneCoursePerCodeAndUniversity ==
    \A c1, c2 \in courses :
        (Lower(c1.code) = Lower(c2.code) /\ Lower(c1.university) = Lower(c2.university))
            => c1 = c2

\* every stored review is kept under its own id, below the counter
StoredUnderOwnId ==
    \A k \in DOMAIN _reviews : _reviews[k].id = k /\ k < _next_review_id

\* a step either empties the store and resets the counter to 1
\* (clear_all_data), or leaves the counter where it was or higher and stores
\* new reviews only under ids the counter had not passed
NoReviewIdReuse ==
    \/ _reviews' = <<>> /\ _next_review_id' = 1
    \/ /\ _next_review_id' >= _next_review_id
       /\ \A k \in DOMAIN _reviews' \ DOMAIN _reviews : k >= _next_review_id

\* C22: in the in-memory DataStore, after any sequence of create_review,
\* update_review and delete_review, every stored review is keyed by its own
\* distinct id, _next_review_id is greater than every stored id, and the id
\* of a deleted review is never assigned to a later review until
\* clear_all_data resets the counter to 1.  (A deleted id was stored, hence
\* below the counter; the counter never falls and new ids are never below
\* it, so a later review cannot get that id.)
C22_ReviewIdsAreNeverReused ==
    []StoredUnderOwnId /\ [][NoReviewIdReuse]_vars

\* review 3 has just been created after reviews 1 and 2 were deleted: it is
\* stored under id 3, not under a freed id
C22_Witness ==
    /\ resp.op = "DataStore.create_review"
    /\ resp.body.id = 3
    /\ DOMAIN _reviews = {3}
    /\ _reviews[3].id = 3
    /\ _next_review_id = 4

====
